---- MODULE Spec2Model ----
(***************************************************************************)
(* Model of the pagination and rendering pipeline of xhs-image-mcp:        *)
(*   smart-paginator.ts (src/unnamed/part_000 lines 565-929): smartPaginate,*)
(*     measureAvailableHeight, findPageBreak, getBrowser;                   *)
(*   paginator.ts (src/src/test-file.ts lines 108-305): paginateText;        *)
(*   renderer.ts (src/src/renderer.ts): renderPages, textToImages.           *)
(* A text is a sequence of one-character strings; LF, CR and SP stand for   *)
(* "\n", "\r" and " ".  The layout engine (Playwright/Chromium) is the      *)
(* environment: every await on it either throws or returns what the         *)
(* oracle reports.                                                          *)
(***************************************************************************)
EXTENDS Integers, Sequences, FiniteSets, TLC

VARIABLES
  text,                    \* smartPaginate / paginateText argument `text`
  oracleKind,              \* "any": the engine reports arbitrary heights; "layout": block layout
  hts,                     \* layout oracle: rendered height of each paragraph block
  pc,                      \* position of the smartPaginate / paginateText call
  paragraphs,              \* const paragraphs (part_000:863)
  browser,                 \* module variable `browser` (part_000:627): TRUE when an instance is held
  launches,                \* number of chromium.launch() calls that succeeded
  tab,                     \* the PlaywrightPage of this call: "none" | "open" | "closed"
  firstPageContentHeight,  \* part_000:876
  baseContentHeight,       \* part_000:877
  pages,                   \* const pages: SmartPage[] (part_000:881)
  currentIndex,            \* part_000:882
  availableHeight,         \* findPageBreak parameter availableHeight
  low, high, result,       \* findPageBreak locals (part_000:733-735)
  probes,                  \* measurement probes issued by the running findPageBreak call
  lastBreak,               \* the last findPageBreak call that returned: its arguments and count
  thrown,                  \* an awaited engine call rejected inside smartPaginate
  missing,                 \* history: measurements that found the expected element absent
  contents,                \* history: setContent calls the tab of this call has received
  seen,                    \* repeatable engine: the height it gave each markup so far
  run,                     \* number of the smartPaginate call being made on this text
  firstRun,                \* what the first call that returned resolved with
  measured,                \* history: the budget measurements of this call that returned
  copts,                   \* paginateText argument `options`
  cpages,                  \* what paginateText returned
  rpages,                  \* renderPages / textToImages argument `pages`
  ropts,                   \* RenderOptions: title, showCover, aiCoverImage
  rpc,                     \* position of the textToImages call
  ri,                      \* loop variable i of renderPages (renderer.ts:315)
  rhtml,                   \* `html` of the current iteration (renderer.ts:317)
  rshot,                   \* `screenshot` of renderPage (renderer.ts:285)
  images,                  \* const images: Buffer[] (renderer.ts:311)
  rbrowser,                \* module variable `browser` of renderer.ts (renderer.ts:41)
  rlaunches,               \* chromium.launch() calls of renderer.ts that succeeded
  live,                    \* engine instances renderer.ts launched that were not closed since
  rtab,                    \* the tab of the running renderPage: "none" | "open" | "closed"
  rthrown,                 \* an awaited engine call rejected inside renderPage
  rendered,                \* history: the loop index of every screenshot taken
  rerror,                  \* the error textToImages rejected with
  rcontents,               \* history: setContent calls the tab of the running renderPage has received
  tresult,                 \* what textToImages resolved with
  callers,                 \* server: where each concurrent tool call stands in getBrowser
  handlers,                \* server: where the handler of each shutdown signal stands
  exited,                  \* server: process.exit was called
  markup,                  \* the elements measured and the elements composed for one page
  search,                  \* findPageBreak calls made over one table of probe heights
  sentences,               \* what splitIntoSentences returned for the text
  request,                 \* tool handler: request.params (name and arguments)
  tpc,                     \* tool handler: position in the handler
  effects,                 \* tool handler: what the call has done so far, in order
  response,                \* tool handler: what the handler returned
  jobs,                    \* concurrent smartPaginate calls: position, `page`, setContent calls
  tabs                     \* every tab opened by those calls: who opened, set content on, closed it

smartVars == <<text, oracleKind, hts, pc, paragraphs, browser, launches, tab,
               firstPageContentHeight, baseContentHeight, pages, currentIndex,
               availableHeight, low, high, result, probes, lastBreak, thrown, missing,
               contents, seen, run, firstRun, measured>>

charVars == <<copts, cpages>>

renderVars == <<rpages, ropts, rpc, ri, rhtml, rshot, images, rbrowser, rlaunches, live, rtab,
                rthrown, rendered, rerror, rcontents, tresult>>

serverVars == <<callers, handlers, exited>>

pureVars == <<markup, search, sentences>>

toolVars == <<request, tpc, effects, response>>

jobVars == <<jobs, tabs>>

notJobVars == <<smartVars, charVars, renderVars, serverVars, pureVars, toolVars>>

\* everything but the state of smartPaginate, and everything but the state of textToImages
notSmartVars == <<charVars, renderVars, serverVars, pureVars, toolVars, jobVars>>

notRenderVars == <<smartVars, charVars, serverVars, pureVars, toolVars, jobVars>>

vars == <<smartVars, charVars, renderVars, serverVars, pureVars, toolVars, jobVars>>

-----------------------------------------------------------------------------
(* Bounds of the model *)

\* longest text of the exhaustive family (all strings over Alphabet)
MaxTextLen == 3
\* most paragraphs of the structured family (distinct one-letter paragraphs)
MaxParas == 4
\* largest content budget (pixels left for body text) the oracle reports
MaxBudget == 3
\* tallest single paragraph block under the layout oracle
MaxParaH == 2
\* most paragraphs of a run whose termination is checked
MaxLiveParas == 2
\* largest explicit charsPerPage / firstPageChars
MaxChars == 3
\* most smartPaginate calls made one after the other on one text
MaxRuns == 2
\* most paragraphs of a text whose paragraphs hold sentences
MaxSentenceParas == 2
\* longest text whose markup is compared (a rule line takes three characters)
MaxMarkupLen == 5
\* most tool calls the server runs at the same time
MaxSentenceLen == 5

MaxJobs == 2

MaxJobContents == 3

MaxCallers == 2

(* Program constants *)
SAFETY_MARGIN == 30

LF == "LF"
CR == "CR"
SP == " "

Alphabet == {"a", ".", SP, LF, CR}

Letters == <<"a", "b", "c", "d", "e", "f", "g", "h">>

-----------------------------------------------------------------------------
(* Input texts *)

RECURSIVE SeqsUpTo(_, _)
SeqsUpTo(S, n) ==
  IF n = 0 THEN {<<>>}
  ELSE LET shorter == SeqsUpTo(S, n - 1)
       IN  shorter \cup {Append(s, c) : s \in shorter, c \in S}

ShortTexts == SeqsUpTo(Alphabet, MaxTextLen)

\* k one-letter paragraphs a, b, c, ... separated by a line break or a blank line
RECURSIVE ParaTextsOf(_)
ParaTextsOf(k) ==
  IF k = 1 THEN {<<Letters[1]>>}
  ELSE {t \o sep \o <<Letters[k]>> : t \in ParaTextsOf(k - 1), sep \in {<<LF>>, <<LF, LF>>}}

ParaTexts == UNION {ParaTextsOf(k) : k \in 1..MaxParas}

Texts == ShortTexts \cup ParaTexts

\* the texts of ParaTexts whose paragraphs are all separated by a blank line
BlankLineTexts ==
  {t \in ParaTexts : \A i \in 1..Len(t) : t[i] = LF => (t[i - 1] = LF \/ t[i + 1] = LF)}

\* the shapes of a paragraph with sentences in it: "x" stands for a letter
SentenceShapes ==
  {<<"x">>, <<"x", ".">>, <<"x", ".", "x">>, <<"x", ".", SP, "x">>}

\* the shape with its letters filled in from Letters, the first being Letters[next]
RECURSIVE Lettered(_, _)
Lettered(shape, next) ==
  IF shape = <<>> THEN <<>>
  ELSE IF shape[1] = "x" THEN <<Letters[next]>> \o Lettered(Tail(shape), next + 1)
  ELSE <<shape[1]>> \o Lettered(Tail(shape), next)

\* k paragraphs of those shapes, no letter used twice, separated by a line break
\* or a blank line
RECURSIVE SentenceTextsOf(_)
SentenceTextsOf(k) ==
  IF k = 1 THEN {Lettered(sh, 1) : sh \in SentenceShapes}
  ELSE {t \o sep \o Lettered(sh, 2 * k - 1) :
          t \in SentenceTextsOf(k - 1), sep \in {<<LF>>, <<LF, LF>>}, sh \in SentenceShapes}

SentenceTexts == UNION {SentenceTextsOf(k) : k \in 1..MaxSentenceParas}

\* paragraphs with terminators, runs of them, and white space around them
SentenceAlphabet == {"a", ".", "!", SP}

SentenceInputs == SeqsUpTo(SentenceAlphabet, MaxSentenceLen)

\* texts with rule lines (---, ***) and characters that escapeHtml rewrites
MarkupAlphabet == {"-", "*", "<", "&", SP, LF}

MarkupTexts == SeqsUpTo(MarkupAlphabet, MaxMarkupLen)

-----------------------------------------------------------------------------
(* String helpers (JavaScript String.prototype semantics) *)

IsSpace(c) == c \in {SP, LF, CR}

IsBlank(s) == \A i \in 1..Len(s) : IsSpace(s[i])

\* text.replace(/\r\n/g, '\n')
RECURSIVE ReplaceCRLF(_)
ReplaceCRLF(s) ==
  IF s = <<>> THEN <<>>
  ELSE IF Len(s) >= 2 /\ s[1] = CR /\ s[2] = LF
       THEN <<LF>> \o ReplaceCRLF(SubSeq(s, 3, Len(s)))
       ELSE <<s[1]>> \o ReplaceCRLF(Tail(s))

\* length of the run of LF at the head of s
RECURSIVE LeadingLF(_)
LeadingLF(s) ==
  IF s = <<>> \/ s[1] # LF THEN 0 ELSE 1 + LeadingLF(Tail(s))

\* text.replace(/\n{3,}/g, '\n\n')
RECURSIVE CollapseNewlines(_)
CollapseNewlines(s) ==
  IF s = <<>> THEN <<>>
  ELSE LET r == LeadingLF(s)
       IN  IF r >= 3 THEN <<LF, LF>> \o CollapseNewlines(SubSeq(s, r + 1, Len(s)))
           ELSE <<s[1]>> \o CollapseNewlines(Tail(s))

RECURSIVE TrimStart(_)
TrimStart(s) ==
  IF s # <<>> /\ IsSpace(s[1]) THEN TrimStart(Tail(s)) ELSE s

RECURSIVE TrimEnd(_)
TrimEnd(s) ==
  IF s # <<>> /\ IsSpace(s[Len(s)]) THEN TrimEnd(SubSeq(s, 1, Len(s) - 1)) ELSE s

\* String.prototype.trim()
Trim(s) == TrimEnd(TrimStart(s))

\* s.split(/\n+/): cut at every maximal run of LF; cur is the piece being read
RECURSIVE SplitAcc(_, _)
SplitAcc(s, cur) ==
  IF s = <<>> THEN <<cur>>
  ELSE IF s[1] = LF
       THEN <<cur>> \o SplitAcc(SubSeq(s, LeadingLF(s) + 1, Len(s)), <<>>)
       ELSE SplitAcc(Tail(s), Append(cur, s[1]))

SplitNewlines(s) == SplitAcc(s, <<>>)

\* array.join(sep)
RECURSIVE Join(_, _)
Join(ps, sep) ==
  IF ps = <<>> THEN <<>>
  ELSE IF Len(ps) = 1 THEN ps[1]
       ELSE ps[1] \o sep \o Join(Tail(ps), sep)

\* cleanedText of smartPaginate and paginateText
CleanText(t) == Trim(CollapseNewlines(ReplaceCRLF(t)))

NotBlank(p) == ~IsBlank(p)

\* mutant: the pieces of the split kept unfiltered
SplitParagraphsUnfiltered(t) == SplitNewlines(CleanText(t))

\* cleanedText.split(/\n+/).filter(p => p.trim())
SplitParagraphs(t) == SelectSeq(SplitNewlines(CleanText(t)), NotBlank)

-----------------------------------------------------------------------------
(* The measurement oracle *)

Thrown == [kind |-> "throw", h |-> 0]
Absent == [kind |-> "missing", h |-> 0]
Measured(h) == [kind |-> "height", h |-> h]

\* height the layout oracle gives paragraphs [start, start + k) (0-based start)
RECURSIVE LayoutHeight(_, _)
LayoutHeight(start, k) ==
  IF k = 0 THEN 0 ELSE LayoutHeight(start, k - 1) + hts[start + k]

\* what setContent / waitForLoadState / evaluate of measureAvailableHeight can yield:
\* a rejection, an absent #measure-content, or the placeholder's height
BudgetOutcomes ==
  IF oracleKind = "fixed"
  THEN {Thrown} \cup {Measured(SAFETY_MARGIN + b) : b \in 0..MaxParaH}
  ELSE {Thrown} \cup {Measured(SAFETY_MARGIN + b) : b \in 0..MaxBudget} \cup {Measured(0)}
         \cup (IF oracleKind = "any" THEN {Absent} ELSE {})

\* what one probe of findPageBreak over k paragraphs from start can yield
ProbeOutcomes(start, k) ==
  IF oracleKind = "layout"
  THEN {Thrown, Measured(LayoutHeight(start, k))}
  ELSE IF oracleKind = "fixed"
  THEN {Thrown} \cup {Measured(h) : h \in 0..(MaxParaH + 1)}
  ELSE {Thrown, Absent} \cup {Measured(h) : h \in 0..(MaxBudget + 1)}

\* the markup measureAvailableHeight measures (part_000:800-825): the placeholder
\* paragraph, under a title for the first-page budget.  Without hasTitle the two
\* markups are the same; the engine may give both keys the same height.
FirstKey == <<<<"#title">>, <<"#placeholder">>>>

BaseKey == <<<<"#placeholder">>>>

\* an engine that reports the same height for the same markup ("fixed"): a markup
\* measured before measures the same again, a new one measures anything
Repeatable(key, fresh) ==
  IF oracleKind # "fixed" THEN fresh
  ELSE IF key \in DOMAIN seen THEN {Thrown, Measured(seen[key])}
  ELSE fresh

Remember(key, out) ==
  IF oracleKind = "fixed" /\ out.kind = "height" THEN (key :> out.h) @@ seen ELSE seen

-----------------------------------------------------------------------------
(* smart-paginator.ts *)

\* measureAvailableHeight (part_000:831-840): `if (!content) return 0`, then the margin
MeasureAvailableHeight(out) ==
  (IF out.kind = "missing" THEN 0 ELSE out.h) - SAFETY_MARGIN

\* findPageBreak: `content ? content.getBoundingClientRect().height : 0` (part_000:769-772)
ContentHeight(out) == IF out.kind = "missing" THEN 0 ELSE out.h

\* mutant: the range tried from its low end, one count after the other
MidLowEnd(lo, hi) == lo

\* findPageBreak: Math.floor((low + high) / 2) (part_000:738)
Mid(lo, hi) == (lo + hi) \div 2

\* mutant: `<` for `<=`
FitsStrict(contentHeight, budget) == contentHeight < budget

\* mutant: `===` for `<=`
FitsExactly(contentHeight, budget) == contentHeight = budget

\* findPageBreak: `contentHeight <= availableHeight` (part_000:774)
Fits(contentHeight, budget) == contentHeight <= budget

\* mutant: the search result returned as it is, 0 when nothing fitted
BreakCountNoFloor(r) == r

\* findPageBreak: `return result > 0 ? result : 1` (part_000:782)
BreakCount(r) == IF r > 0 THEN r ELSE 1

\* the loop of findPageBreak (part_000:737-780) over a table of probe heights:
\* heights[k] is what the engine measures for the first k of the remaining paragraphs
RECURSIVE SearchLoop(_, _, _, _, _)
SearchLoop(heights, budget, lo, hi, res) ==
  IF lo > hi THEN res
  ELSE LET mid == Mid(lo, hi)
       IN  IF Fits(heights[mid], budget)
           THEN SearchLoop(heights, budget, mid + 1, hi, mid)
           ELSE SearchLoop(heights, budget, lo, mid - 1, res)

\* findPageBreak (part_000:721-783) as a function of the heights the engine gives
FindPageBreak(heights, remaining, budget) ==
  BreakCount(SearchLoop(heights, budget, 1, remaining, 0))

\* mutant: the whole list taken as remaining, `high = paragraphs.length`
RemainingCountWhole(ps, idx) == Len(ps)

\* findPageBreak: `let high = paragraphs.length - startIndex` (part_000:734)
RemainingCount(ps, idx) == Len(ps) - idx

\* mutant: the first-page budget used for every page
AvailableHeightAlwaysFirst(pgs, first, base) == first

\* `isFirstPage ? firstPageContentHeight : baseContentHeight` (part_000:885-886)
AvailableHeight(pgs, first, base) == IF Len(pgs) = 0 THEN first ELSE base

\* mutant: the end of the slice taken as inclusive, slice(idx, idx + count - 1)
PageSliceShort(ps, idx, count) ==
  SubSeq(ps, idx + 1, IF idx + count - 1 > Len(ps) THEN Len(ps) ELSE idx + count - 1)

\* paragraphs.slice(currentIndex, currentIndex + count) (part_000:891)
PageSlice(ps, idx, count) ==
  SubSeq(ps, idx + 1, IF idx + count > Len(ps) THEN Len(ps) ELSE idx + count)

\* mutant: `currentIndex = count` for `currentIndex += count`
AdvanceAssign(idx, count) == count

\* currentIndex += count (part_000:901)
Advance(idx, count) == idx + count

\* the SmartPage pushed at part_000:893-899
NewPage(ps, number, first) ==
  [content |-> Join(ps, <<LF, LF>>), pageNumber |-> number, isFirst |-> first,
   isLast |-> FALSE, paragraphs |-> ps]

\* mutant: the last page left unmarked
MarkLastForgotten(pgs) == pgs

\* `pages[pages.length - 1].isLast = true` (part_000:905-907)
MarkLast(pgs) ==
  IF Len(pgs) > 0 THEN [pgs EXCEPT ![Len(pgs)].isLast = TRUE] ELSE pgs

NoBreak == [start |-> 0, remaining |-> 0, budget |-> 0, count |-> 0, probes |-> 0,
            returned |-> FALSE]

\* part_000:857-867: clean, split, and return [] when nothing is left
SplitText ==
  /\ pc = "start"
  /\ paragraphs' = SplitParagraphs(text)
  /\ hts' \in IF oracleKind = "layout"
              THEN [1..Len(paragraphs') -> 1..MaxParaH]
              ELSE {<<>>}
  /\ pc' = IF Len(paragraphs') = 0 THEN "done" ELSE "getBrowser"
  /\ UNCHANGED <<text, oracleKind, browser, launches, tab,
                 firstPageContentHeight, baseContentHeight, pages, currentIndex,
                 availableHeight, low, high, result, probes, lastBreak, thrown, missing>>
  /\ UNCHANGED <<contents, seen, run, firstRun, measured>>
  /\ UNCHANGED notSmartVars

\* getBrowser (part_000:629-637), awaited at part_000:870
GetBrowser ==
  /\ pc = "getBrowser"
  /\ \E ok \in BOOLEAN :
       IF browser
       THEN /\ ok
            /\ pc' = "newPage"
            /\ UNCHANGED <<browser, launches, thrown>>
       ELSE IF ok
            THEN /\ browser' = TRUE
                 /\ launches' = launches + 1
                 /\ pc' = "newPage"
                 /\ UNCHANGED thrown
            ELSE /\ pc' = "error"
                 /\ thrown' = TRUE
                 /\ UNCHANGED <<browser, launches>>
  /\ UNCHANGED <<text, oracleKind, hts, paragraphs, tab,
                 firstPageContentHeight, baseContentHeight, pages, currentIndex,
                 availableHeight, low, high, result, probes, lastBreak, missing>>
  /\ UNCHANGED <<contents, seen, run, firstRun, measured>>
  /\ UNCHANGED notSmartVars

\* browserInstance.newPage() (part_000:871)
OpenTab ==
  /\ pc = "newPage"
  /\ \E ok \in BOOLEAN :
       IF ok
       THEN tab' = "open" /\ pc' = "viewport" /\ UNCHANGED thrown
       ELSE pc' = "error" /\ thrown' = TRUE /\ UNCHANGED tab
  /\ UNCHANGED <<text, oracleKind, hts, paragraphs, browser, launches,
                 firstPageContentHeight, baseContentHeight, pages, currentIndex,
                 availableHeight, low, high, result, probes, lastBreak, missing>>
  /\ contents' = IF tab' = "open" THEN 0 ELSE contents
  /\ UNCHANGED <<seen, run, firstRun, measured>>
  /\ UNCHANGED notSmartVars

\* page.setViewportSize (part_000:872), outside the try block
SetViewport ==
  /\ pc = "viewport"
  /\ \E ok \in BOOLEAN :
       IF ok
       THEN pc' = "measureFirst" /\ UNCHANGED thrown
       ELSE pc' = "error" /\ thrown' = TRUE
  /\ UNCHANGED <<text, oracleKind, hts, paragraphs, browser, launches, tab,
                 firstPageContentHeight, baseContentHeight, pages, currentIndex,
                 availableHeight, low, high, result, probes, lastBreak, missing>>
  /\ UNCHANGED <<contents, seen, run, firstRun, measured>>
  /\ UNCHANGED notSmartVars

\* measureAvailableHeight(page, options, hasTitle, dimensions) (part_000:876)
MeasureFirst ==
  /\ pc = "measureFirst"
  /\ \E out \in Repeatable(FirstKey, BudgetOutcomes) :
       IF out.kind = "throw"
       THEN /\ thrown' = TRUE /\ pc' = "close"
            /\ UNCHANGED <<firstPageContentHeight, missing, contents, seen, measured>>
       ELSE /\ firstPageContentHeight' = MeasureAvailableHeight(out)
            /\ measured' = Append(measured, [which |-> "first",
                                             value |-> MeasureAvailableHeight(out)])
            /\ contents' = contents + 1
            /\ seen' = Remember(FirstKey, out)
            /\ missing' = IF out.kind = "missing" THEN missing \cup {"first"} ELSE missing
            /\ pc' = "measureBase"
            /\ UNCHANGED thrown
  /\ UNCHANGED <<text, oracleKind, hts, paragraphs, browser, launches, tab,
                 baseContentHeight, pages, currentIndex,
                 availableHeight, low, high, result, probes, lastBreak>>
  /\ UNCHANGED <<run, firstRun>>
  /\ UNCHANGED notSmartVars

\* measureAvailableHeight(page, options, false, dimensions) (part_000:877)
MeasureBase ==
  /\ pc = "measureBase"
  /\ \E out \in Repeatable(BaseKey, BudgetOutcomes) :
       IF out.kind = "throw"
       THEN /\ thrown' = TRUE /\ pc' = "close"
            /\ UNCHANGED <<baseContentHeight, missing, contents, seen, measured>>
       ELSE /\ baseContentHeight' = MeasureAvailableHeight(out)
            /\ measured' = Append(measured, [which |-> "base",
                                             value |-> MeasureAvailableHeight(out)])
            /\ contents' = contents + 1
            /\ seen' = Remember(BaseKey, out)
            /\ missing' = IF out.kind = "missing" THEN missing \cup {"base"} ELSE missing
            /\ pc' = "loop"
            /\ UNCHANGED thrown
  /\ UNCHANGED <<text, oracleKind, hts, paragraphs, browser, launches, tab,
                 firstPageContentHeight, pages, currentIndex,
                 availableHeight, low, high, result, probes, lastBreak>>
  /\ UNCHANGED <<run, firstRun>>
  /\ UNCHANGED notSmartVars

\* loop head (part_000:884-889) and entry of findPageBreak (part_000:733-735);
\* after the loop, the isLast mark (part_000:905-907) and `return pages`
LoopHead ==
  /\ pc = "loop"
  /\ IF currentIndex < Len(paragraphs)
     THEN /\ availableHeight' =
               AvailableHeight(pages, firstPageContentHeight, baseContentHeight)
          /\ low' = 1
          /\ high' = RemainingCount(paragraphs, currentIndex)
          /\ result' = 0
          /\ probes' = 0
          /\ pc' = "search"
          /\ UNCHANGED pages
     ELSE /\ pages' = MarkLast(pages)
          /\ pc' = "close"
          /\ UNCHANGED <<availableHeight, low, high, result, probes>>
  /\ UNCHANGED <<text, oracleKind, hts, paragraphs, browser, launches, tab,
                 firstPageContentHeight, baseContentHeight, currentIndex,
                 lastBreak, thrown, missing>>
  /\ UNCHANGED <<contents, seen, run, firstRun, measured>>
  /\ UNCHANGED notSmartVars

\* one iteration of the binary search (part_000:737-780)
Probe ==
  /\ pc = "search"
  /\ low <= high
  /\ LET mid == Mid(low, high)
         testParagraphs == PageSlice(paragraphs, currentIndex, mid)
     IN  \E out \in Repeatable(testParagraphs, ProbeOutcomes(currentIndex, mid)) :
           IF out.kind = "throw"
           THEN /\ thrown' = TRUE /\ pc' = "close"
                /\ UNCHANGED <<low, high, result, probes, missing, contents, seen>>
           ELSE /\ contents' = contents + 1
                /\ seen' = Remember(testParagraphs, out)
                /\ IF Fits(ContentHeight(out), availableHeight)
                   THEN result' = mid /\ low' = mid + 1 /\ UNCHANGED high
                   ELSE high' = mid - 1 /\ UNCHANGED <<low, result>>
                /\ probes' = probes + 1
                /\ missing' = IF out.kind = "missing" THEN missing \cup {"probe"} ELSE missing
                /\ UNCHANGED <<pc, thrown>>
  /\ UNCHANGED <<text, oracleKind, hts, paragraphs, browser, launches, tab,
                 firstPageContentHeight, baseContentHeight, pages, currentIndex,
                 availableHeight, lastBreak>>
  /\ UNCHANGED <<run, firstRun, measured>>
  /\ UNCHANGED notSmartVars

\* findPageBreak returns (part_000:782); the page is pushed and the cursor moved
\* (part_000:891-901)
PushPage ==
  /\ pc = "search"
  /\ low > high
  /\ LET count == BreakCount(result)
         pageParagraphs == PageSlice(paragraphs, currentIndex, count)
     IN  /\ pages' = Append(pages, NewPage(pageParagraphs, Len(pages) + 1, Len(pages) = 0))
         /\ currentIndex' = Advance(currentIndex, count)
         /\ lastBreak' = [start |-> currentIndex,
                          remaining |-> Len(paragraphs) - currentIndex,
                          budget |-> availableHeight, count |-> count,
                          probes |-> probes, returned |-> TRUE]
  /\ pc' = "loop"
  /\ UNCHANGED <<text, oracleKind, hts, paragraphs, browser, launches, tab,
                 firstPageContentHeight, baseContentHeight,
                 availableHeight, low, high, result, probes, thrown, missing>>
  /\ UNCHANGED <<contents, seen, run, firstRun, measured>>
  /\ UNCHANGED notSmartVars

\* finally { await page.close() } (part_000:910-912); then the return or the rethrow
CloseTab ==
  /\ pc = "close"
  /\ tab' = "closed"
  /\ pc' = IF thrown THEN "error" ELSE "done"
  /\ UNCHANGED <<text, oracleKind, hts, paragraphs, browser, launches,
                 firstPageContentHeight, baseContentHeight, pages, currentIndex,
                 availableHeight, low, high, result, probes, lastBreak, thrown, missing>>
  /\ UNCHANGED <<contents, seen, run, firstRun, measured>>
  /\ UNCHANGED notSmartVars

-----------------------------------------------------------------------------
(* paginator.ts (src/src/test-file.ts lines 108-305) *)

Ratios == {"3:4", "1:1", "4:3"}
FontSizes == {"small", "medium", "large"}

\* BASE_CHARS_PER_PAGE (test-file.ts:124-140)
BASE_CHARS_PER_PAGE ==
  [r \in Ratios |->
     CASE r = "3:4" -> [small |-> 420, medium |-> 320, large |-> 240]
       [] r = "1:1" -> [small |-> 300, medium |-> 230, large |-> 180]
       [] r = "4:3" -> [small |-> 250, medium |-> 200, large |-> 150]]

\* [a-zA-Z0-9], as far as the alphabet of the model goes
IsEnglish(c) == c \in {"a", "b", "c", "d", "e", "f", "g", "h"}

\* the class of sentenceEnders (test-file.ts:285): . ! ? and the full-width
\* U+3002, U+FF01, U+FF1F, U+FF1B, each one character of a text
IsEnder(c) == c \in {".", "!", "?", "U+3002", "U+FF01", "U+FF1F", "U+FF1B"}

\* cleaned.length, with cleaned = text.replace(/\s+/g, '') (test-file.ts:147)
CountNonSpace(s) == Cardinality({i \in 1..Len(s) : ~IsSpace(s[i])})

\* (cleaned.match(/[a-zA-Z0-9]/g) || []).length (test-file.ts:151)
CountEnglish(s) == Cardinality({i \in 1..Len(s) : IsEnglish(s[i])})

\* adjustCharsForLanguage(baseChars, detectEnglishRatio(text)) (test-file.ts:146-163):
\* floor(baseChars * (1 + 0.7 * english / nonBlank)), in exact arithmetic
AdjustedChars(baseChars, t) ==
  LET n == CountNonSpace(t)
      e == CountEnglish(t)
  IN  IF n = 0 THEN baseChars
      ELSE (baseChars * (10 * n + 7 * e)) \div (10 * n)

\* maxChars (test-file.ts:186-193); a charsPerPage or firstPageChars of 0 is "not given";
\* ratio and fontSize are of the enumerations, so the `|| 350` fallback is never taken
MaxCharsOf(t, o) ==
  IF o.charsPerPage # 0 THEN o.charsPerPage
  ELSE IF o.dynamicCount
       THEN AdjustedChars(BASE_CHARS_PER_PAGE[o.ratio][o.fontSize], t)
       ELSE BASE_CHARS_PER_PAGE[o.ratio][o.fontSize]

\* firstPageMaxChars (test-file.ts:196)
FirstPageMaxCharsOf(t, o) ==
  IF o.firstPageChars # 0 THEN o.firstPageChars
  ELSE IF o.hasTitle THEN (MaxCharsOf(t, o) * 3) \div 4
       ELSE MaxCharsOf(t, o)

\* length of the longest prefix of s made of enders (ender = TRUE) or free of them
RECURSIVE Run(_, _)
Run(s, ender) ==
  IF s = <<>> \/ IsEnder(s[1]) # ender THEN 0 ELSE 1 + Run(Tail(s), ender)

\* text.split(sentenceEnders) taken two parts at a time (test-file.ts:285-290):
\* a stretch without enders, then the run of enders after it
RECURSIVE SentencePieces(_)
SentencePieces(s) ==
  IF s = <<>> THEN <<>>
  ELSE LET a == Run(s, FALSE)
           b == Run(SubSeq(s, a + 1, Len(s)), TRUE)
       IN  <<SubSeq(s, 1, a + b)>> \o SentencePieces(SubSeq(s, a + b + 1, Len(s)))

\* mutant: every piece kept, `if (sentence.trim())` left out
SplitIntoSentencesUnfiltered(s) == SentencePieces(s)

\* splitIntoSentences (test-file.ts:282-297)
SplitIntoSentences(s) == SelectSeq(SentencePieces(s), NotBlank)

\* the Page pushed at test-file.ts:222-227, 242-247 and 263-268
CharPage(content, number, first, last) ==
  [content |-> Trim(content), pageNumber |-> number, isFirst |-> first, isLast |-> last]

\* the loop state of paginateText: pages, currentPageContent, currentCharCount,
\* and as history what the loop decided for each paragraph so far, the lengths
\* of the paragraphs and sentences put on the current page (units) and on each
\* page pushed (placed)
EmptyLoop == [pages |-> <<>>, content |-> <<>>, count |-> 0, decisions |-> <<>>,
              units |-> <<>>, placed |-> <<>>]

\* getCurrentMaxChars (test-file.ts:212)
CurrentMaxChars(st, first, max) == IF Len(st.pages) = 0 THEN first ELSE max

\* mutant: the page saved only once it is over its budget already
FlushIfOverLate(st, len, first, max) ==
  IF st.count > CurrentMaxChars(st, first, max) /\ st.content # <<>>
  THEN [st EXCEPT !.pages = Append(@, CharPage(st.content, Len(st.pages) + 1,
                                               Len(st.pages) = 0, FALSE)),
                  !.content = <<>>, !.count = 0,
                  !.placed = Append(@, st.units), !.units = <<>>]
  ELSE st

\* "save the current page" (test-file.ts:220-230 and 241-250)
FlushIfOver(st, len, first, max) ==
  IF st.count + len > CurrentMaxChars(st, first, max) /\ st.content # <<>>
  THEN [st EXCEPT !.pages = Append(@, CharPage(st.content, Len(st.pages) + 1,
                                               Len(st.pages) = 0, FALSE)),
                  !.content = <<>>, !.count = 0,
                  !.placed = Append(@, st.units), !.units = <<>>]
  ELSE st

\* the sentence loop (test-file.ts:239-253)
RECURSIVE AddSentences(_, _, _, _)
AddSentences(st, ss, first, max) ==
  IF ss = <<>> THEN st
  ELSE LET st1 == FlushIfOver(st, Len(ss[1]), first, max)
       IN  AddSentences([st1 EXCEPT !.content = @ \o ss[1], !.count = @ + Len(ss[1]),
                                    !.units = Append(@, Len(ss[1]))],
                        Tail(ss), first, max)

\* what the loop decided for a paragraph: cut into sentences or not, on which
\* page it starts, and whether that page was still empty
Decision(st, paragraph, split) ==
  [paragraph |-> paragraph, split |-> split, pageNumber |-> Len(st.pages) + 1,
   empty |-> st.content = <<>>]

\* mutant: the paragraph compared with the regular budget on every page
AddParagraphRegularBudget(st, p, first, max) ==
  LET paragraph == Trim(p)
      st1 == FlushIfOver(st, Len(paragraph), first, max)
      split == Len(paragraph) > max
      st2 == [st1 EXCEPT !.decisions = Append(@, Decision(st1, paragraph, split))]
  IN  IF split
      THEN AddSentences(st2, SplitIntoSentences(paragraph), first, max)
      ELSE [st2 EXCEPT !.content = @ \o paragraph \o <<LF, LF>>,
                       !.count = @ + Len(paragraph),
                       !.units = Append(@, Len(paragraph))]

\* one iteration of the paragraph loop (test-file.ts:214-259)
AddParagraph(st, p, first, max) ==
  LET paragraph == Trim(p)
      st1 == FlushIfOver(st, Len(paragraph), first, max)
      split == Len(paragraph) > CurrentMaxChars(st1, first, max)
      st2 == [st1 EXCEPT !.decisions = Append(@, Decision(st1, paragraph, split))]
  IN  IF split
      THEN AddSentences(st2, SplitIntoSentences(paragraph), first, max)
      ELSE [st2 EXCEPT !.content = @ \o paragraph \o <<LF, LF>>,
                       !.count = @ + Len(paragraph),
                       !.units = Append(@, Len(paragraph))]

RECURSIVE AddParagraphs(_, _, _, _)
AddParagraphs(st, ps, first, max) ==
  IF ps = <<>> THEN st
  ELSE AddParagraphs(AddParagraph(st, ps[1], first, max), Tail(ps), first, max)

\* the last page and the isLast mark (test-file.ts:261-276)
FinishPages(st) ==
  LET pgs == IF Trim(st.content) # <<>>
             THEN Append(st.pages,
                         CharPage(st.content, Len(st.pages) + 1, Len(st.pages) = 0, TRUE))
             ELSE st.pages
  IN  IF Len(pgs) > 0 THEN [pgs EXCEPT ![Len(pgs)].isLast = TRUE] ELSE pgs

\* paginateText (test-file.ts:175-277)
PaginateText(t, o) ==
  FinishPages(AddParagraphs(EmptyLoop, SplitParagraphs(t),
                            FirstPageMaxCharsOf(t, o), MaxCharsOf(t, o)))

\* the decisions the paragraph loop of paginateText(t, o) took, in order
Decisions(t, o) ==
  AddParagraphs(EmptyLoop, SplitParagraphs(t),
                FirstPageMaxCharsOf(t, o), MaxCharsOf(t, o)).decisions

\* for each page paginateText(t, o) returns, the lengths of the paragraphs and
\* sentences the loop put on it
PlacedUnits(t, o) ==
  LET st == AddParagraphs(EmptyLoop, SplitParagraphs(t),
                          FirstPageMaxCharsOf(t, o), MaxCharsOf(t, o))
  IN  IF Trim(st.content) # <<>> THEN Append(st.placed, st.units) ELSE st.placed

\* the PaginatorOptions the model calls paginateText with: explicit budgets of a
\* few characters, or the defaults of every ratio and font size
CharOptions ==
  [charsPerPage : 1..MaxChars, firstPageChars : 0..MaxChars, fontSize : {"medium"},
   ratio : {"3:4"}, dynamicCount : {TRUE}, hasTitle : BOOLEAN]
  \cup
  [charsPerPage : {0}, firstPageChars : {0}, fontSize : FontSizes,
   ratio : Ratios, dynamicCount : BOOLEAN, hasTitle : {FALSE}]

NoOptions == [charsPerPage |-> 0, firstPageChars |-> 0, fontSize |-> "medium",
              ratio |-> "3:4", dynamicCount |-> TRUE, hasTitle |-> FALSE]

\* a call paginateText(text, options), which is synchronous
PaginateTextCall ==
  /\ pc = "start"
  /\ \E o \in CharOptions :
       /\ copts' = o
       /\ cpages' = PaginateText(text, o)
  /\ pc' = "charDone"
  /\ UNCHANGED <<text, oracleKind, hts, paragraphs, browser, launches, tab,
                 firstPageContentHeight, baseContentHeight, pages, currentIndex,
                 availableHeight, low, high, result, probes, lastBreak, thrown, missing>>
  /\ UNCHANGED <<contents, seen, run, firstRun, measured>>
  /\ UNCHANGED <<renderVars, serverVars, pureVars, toolVars, jobVars>>

\* the value smartPaginate resolves with, once pc = "done"
Returned == pages

NoRun == [returned |-> FALSE, pages |-> <<>>]

\* mutant: `pages` kept from the call before
RerunKeepingPages ==
  /\ pc \in {"done", "error"}
  /\ run < MaxRuns
  /\ run' = run + 1
  /\ firstRun' = IF pc = "done" /\ ~firstRun.returned
                 THEN [returned |-> TRUE, pages |-> Returned] ELSE firstRun
  /\ pc' = "start"
  /\ paragraphs' = <<>>
  /\ tab' = "none"
  /\ firstPageContentHeight' = 0 /\ baseContentHeight' = 0
  /\ currentIndex' = 0
  /\ availableHeight' = 0
  /\ low' = 0 /\ high' = 0 /\ result' = 0
  /\ probes' = 0
  /\ lastBreak' = NoBreak
  /\ thrown' = FALSE
  /\ missing' = {}
  /\ contents' = 0
  /\ measured' = <<>>
  /\ UNCHANGED <<text, oracleKind, hts, browser, launches, seen, pages>>
  /\ UNCHANGED notSmartVars

\* smartPaginate is called again on the same text once the call before has
\* returned or thrown: every local starts afresh (part_000:850-882), the module
\* variable `browser` (part_000:627) and the engine stay as they are
Rerun ==
  /\ pc \in {"done", "error"}
  /\ run < MaxRuns
  /\ run' = run + 1
  /\ firstRun' = IF pc = "done" /\ ~firstRun.returned
                 THEN [returned |-> TRUE, pages |-> Returned] ELSE firstRun
  /\ pc' = "start"
  /\ paragraphs' = <<>>
  /\ tab' = "none"
  /\ firstPageContentHeight' = 0 /\ baseContentHeight' = 0
  /\ pages' = <<>>
  /\ currentIndex' = 0
  /\ availableHeight' = 0
  /\ low' = 0 /\ high' = 0 /\ result' = 0
  /\ probes' = 0
  /\ lastBreak' = NoBreak
  /\ thrown' = FALSE
  /\ missing' = {}
  /\ contents' = 0
  /\ measured' = <<>>
  /\ UNCHANGED <<text, oracleKind, hts, browser, launches, seen>>
  /\ UNCHANGED notSmartVars

SmartNext ==
  \/ SplitText
  \/ GetBrowser
  \/ OpenTab
  \/ SetViewport
  \/ MeasureFirst
  \/ MeasureBase
  \/ LoopHead
  \/ Probe
  \/ PushPage
  \/ CloseTab

-----------------------------------------------------------------------------
(* renderer.ts *)

\* text.replace(/c/g, r) for a pattern of one character
RECURSIVE ReplaceChar(_, _, _)
ReplaceChar(s, c, r) ==
  IF s = <<>> THEN <<>>
  ELSE (IF s[1] = c THEN r ELSE <<s[1]>>) \o ReplaceChar(Tail(s), c, r)

\* /^[-*_]{3,}$/.test(q)
MatchesDivider(q) == Len(q) >= 3 /\ \A i \in 1..Len(q) : q[i] \in {"-", "*", "_"}

\* escapeHtml of smart-paginator.ts (part_000:656-663)
EscapeHtml(t) ==
  ReplaceChar(ReplaceChar(ReplaceChar(ReplaceChar(ReplaceChar(t,
    "&", <<"&", "a", "m", "p", ";">>),
    "<", <<"&", "l", "t", ";">>),
    ">", <<"&", "g", "t", ";">>),
    "\"", <<"&", "q", "u", "o", "t", ";">>),
    "'", <<"&", "#", "0", "3", "9", ";">>)

\* escapeHtml of renderer.ts (renderer.ts:259-266)
RendererEscapeHtml(t) ==
  ReplaceChar(ReplaceChar(ReplaceChar(ReplaceChar(ReplaceChar(t,
    "&", <<"&", "a", "m", "p", ";">>),
    "<", <<"&", "l", "t", ";">>),
    ">", <<"&", "g", "t", ";">>),
    "\"", <<"&", "q", "u", "o", "t", ";">>),
    "'", <<"&", "#", "0", "3", "9", ";">>)

HrElement == [tag |-> "hr", class |-> "divider", text |-> <<>>]

PElement(t) == [tag |-> "p", class |-> "", text |-> t]

\* mutant: every paragraph a <p>, as generateMeasureHTML has it (part_000:688-690)
ParagraphToHtmlNoDivider(p) == PElement(EscapeHtml(p))

\* paragraphToHtml (part_000:668-674)
ParagraphToHtml(p) ==
  IF MatchesDivider(Trim(p)) THEN HrElement ELSE PElement(EscapeHtml(p))

\* testParagraphs.map(p => paragraphToHtml(p)) of findPageBreak (part_000:757)
MeasuredElements(ps) == [i \in 1..Len(ps) |-> ParagraphToHtml(ps[i])]

\* paragraphsToHtml (renderer.ts:83-95), without the final join
ParagraphsToHtml(content) ==
  LET ps == SelectSeq(SplitNewlines(content), NotBlank)
  IN  [i \in 1..Len(ps) |->
         IF MatchesDivider(Trim(ps[i])) THEN HrElement
         ELSE PElement(RendererEscapeHtml(ps[i]))]

\* an optional string option that was not given
Undefined == "undefined"

\* JavaScript truthiness of an optional string
Truthy(x) == x \notin {Undefined, ""}

RenderOptions ==
  [title : {Undefined, "", "T"}, showCover : BOOLEAN, aiCoverImage : {Undefined, "", "B64"}]

\* generateContentHTML (renderer.ts:100-133)
GenerateContentHTML(page, totalPages) ==
  [variant |-> "content", title |-> Undefined, cover |-> Undefined,
   content |-> page.content, pageNumber |-> page.pageNumber, totalPages |-> totalPages]

\* generateFirstPageWithTitleHTML (renderer.ts:138-173)
GenerateFirstPageWithTitleHTML(title, page, totalPages) ==
  [variant |-> "title", title |-> title, cover |-> Undefined,
   content |-> page.content, pageNumber |-> page.pageNumber, totalPages |-> totalPages]

\* generateAICoverWithContentHTML (renderer.ts:178-254)
GenerateAICoverWithContentHTML(title, aiImageBase64, page, totalPages) ==
  [variant |-> "aiCover", title |-> title, cover |-> aiImageBase64,
   content |-> page.content, pageNumber |-> page.pageNumber, totalPages |-> totalPages]

\* mutant: the first-page test without showCover, `i === 0 && title`
PageHtmlIgnoringShowCover(i, pgs, o) ==
  IF i = 0 /\ Truthy(o.title)
  THEN IF Truthy(o.aiCoverImage)
       THEN GenerateAICoverWithContentHTML(o.title, o.aiCoverImage, pgs[i + 1], Len(pgs))
       ELSE GenerateFirstPageWithTitleHTML(o.title, pgs[i + 1], Len(pgs))
  ELSE GenerateContentHTML(pgs[i + 1], Len(pgs))

\* the choice of the page's HTML (renderer.ts:319-330); i is the 0-based loop index
PageHtml(i, pgs, o) ==
  IF i = 0 /\ o.showCover /\ Truthy(o.title)
  THEN IF Truthy(o.aiCoverImage)
       THEN GenerateAICoverWithContentHTML(o.title, o.aiCoverImage, pgs[i + 1], Len(pgs))
       ELSE GenerateFirstPageWithTitleHTML(o.title, pgs[i + 1], Len(pgs))
  ELSE GenerateContentHTML(pgs[i + 1], Len(pgs))

\* page.screenshot (renderer.ts:285-288): the PNG of what the tab shows
Screenshot(html) == [png |-> html]

\* buffer.toString('base64') (renderer.ts:350)
Base64(buffer) == [base64 |-> buffer]

\* images.map(buffer => buffer.toString('base64')) and the result (renderer.ts:350-355)
TextToImagesResult(buffers) ==
  LET imgs == [k \in 1..Len(buffers) |-> Base64(buffers[k])]
  IN  [images |-> imgs, pageCount |-> Len(imgs)]

NoHtml == [variant |-> "none"]

\* what an awaited Playwright call rejects with: an Error whose message names the
\* engine call that failed; renderPage and renderPages have no catch clause, so
\* it reaches the caller of textToImages as it is
EngineErrors ==
  {[message |-> m, page |-> -1] : m \in {"Timeout exceeded", "Target closed"}}

NoError == [message |-> "", page |-> -1]
NoResult == [images |-> <<>>, pageCount |-> -1]

\* mutant: the loop bound one short, `i < pages.length - 1`
ComposePageOneShort ==
  /\ rpc = "loop"
  /\ IF ri < Len(rpages) - 1
     THEN /\ rhtml' = PageHtml(ri, rpages, ropts)
          /\ rpc' = "getBrowser"
          /\ UNCHANGED tresult
     ELSE /\ tresult' = TextToImagesResult(images)
          /\ rpc' = "done"
          /\ UNCHANGED rhtml
  /\ UNCHANGED <<rpages, ropts, ri, rshot, images, rbrowser, rlaunches, rtab, rthrown,
                 rendered, rerror, rcontents, live>>
  /\ UNCHANGED notRenderVars

\* loop head of renderPages (renderer.ts:315-330); past the last page, `return images`
\* (renderer.ts:336) and the return of textToImages (renderer.ts:347-355)
ComposePage ==
  /\ rpc = "loop"
  /\ IF ri < Len(rpages)
     THEN /\ rhtml' = PageHtml(ri, rpages, ropts)
          /\ rpc' = "getBrowser"
          /\ UNCHANGED tresult
     ELSE /\ tresult' = TextToImagesResult(images)
          /\ rpc' = "done"
          /\ UNCHANGED rhtml
  /\ UNCHANGED <<rpages, ropts, ri, rshot, images, rbrowser, rlaunches, rtab, rthrown,
                 rendered, rerror, rcontents, live>>
  /\ UNCHANGED notRenderVars

\* getBrowser of renderer.ts (renderer.ts:46-54), awaited at renderer.ts:275
RenderGetBrowser ==
  /\ rpc = "getBrowser"
  /\ \E ok \in BOOLEAN :
       IF rbrowser
       THEN /\ ok
            /\ rpc' = "newPage"
            /\ UNCHANGED <<rbrowser, rlaunches, live, rthrown>>
       ELSE IF ok
            THEN /\ rbrowser' = TRUE
                 /\ rlaunches' = rlaunches + 1
                 /\ live' = live + 1
                 /\ rpc' = "newPage"
                 /\ UNCHANGED rthrown
            ELSE /\ rpc' = "error"
                 /\ rthrown' = TRUE
                 /\ UNCHANGED <<rbrowser, rlaunches, live>>
  /\ rerror' \in IF rpc' = "error" THEN EngineErrors ELSE {rerror}
  /\ UNCHANGED <<rpages, ropts, ri, rhtml, rshot, images, rtab, rendered, rcontents, tresult>>
  /\ UNCHANGED notRenderVars

\* browserInstance.newPage() (renderer.ts:276)
RenderOpenTab ==
  /\ rpc = "newPage"
  /\ \E ok \in BOOLEAN :
       IF ok
       THEN rtab' = "open" /\ rpc' = "shoot" /\ UNCHANGED rthrown
       ELSE rpc' = "error" /\ rthrown' = TRUE /\ UNCHANGED rtab
  /\ rerror' \in IF rpc' = "error" THEN EngineErrors ELSE {rerror}
  /\ rcontents' = IF rtab' = "open" THEN 0 ELSE rcontents
  /\ UNCHANGED <<rpages, ropts, ri, rhtml, rshot, images, rbrowser, rlaunches, live,
                 rendered, tresult>>
  /\ UNCHANGED notRenderVars

\* the try block of renderPage (renderer.ts:278-290): viewport, content, wait, screenshot
Shoot ==
  /\ rpc = "shoot"
  /\ \E ok \in BOOLEAN :
       IF ok
       THEN /\ rshot' = Screenshot(rhtml)
            /\ rendered' = Append(rendered, ri)
            /\ rcontents' = rcontents + 1
            /\ UNCHANGED rthrown
       ELSE rthrown' = TRUE /\ UNCHANGED <<rshot, rendered, rcontents>>
  /\ rerror' \in IF rthrown' THEN EngineErrors ELSE {rerror}
  /\ rpc' = "close"
  /\ UNCHANGED <<rpages, ropts, ri, rhtml, images, rbrowser, rlaunches, live, rtab, tresult>>
  /\ UNCHANGED notRenderVars

\* finally { await page.close() } (renderer.ts:291-293); then the rethrow, or
\* images.push(image) and i++ (renderer.ts:332-333, 315)
RenderCloseTab ==
  /\ rpc = "close"
  /\ rtab' = "closed"
  /\ IF rthrown
     THEN rpc' = "error" /\ UNCHANGED <<images, ri>>
     ELSE /\ images' = Append(images, rshot)
          /\ ri' = ri + 1
          /\ rpc' = "loop"
  /\ UNCHANGED <<rpages, ropts, rhtml, rshot, rbrowser, rlaunches, live, rthrown, rendered,
                 rerror, rcontents, tresult>>
  /\ UNCHANGED notRenderVars

\* the part of the render state the server's getBrowser and closeBrowser leave alone
renderJobVars == <<rpages, ropts, rpc, ri, rhtml, rshot, images, rtab, rthrown, rendered,
                   rerror, rcontents, tresult>>

\* the tool calls the server runs at the same time (the request handler is async
\* and is entered for each request as it arrives, part_000:256)
Callers == 1..MaxCallers

Signals == {"SIGINT", "SIGTERM"}

\* a tool call reaches renderPage and enters getBrowser (renderer.ts:275, 46-48):
\* `if (!browser)` and, when it is null, the call of chromium.launch, up to the await
EnterGetBrowser(c) ==
  /\ ~exited
  /\ callers[c] = "idle"
  /\ callers' = [callers EXCEPT ![c] = IF rbrowser THEN "hasBrowser" ELSE "launching"]
  /\ UNCHANGED <<rbrowser, rlaunches, live, handlers, exited>>
  /\ UNCHANGED <<renderJobVars, smartVars, charVars, pureVars, toolVars, jobVars>>

\* chromium.launch settles and `browser = await ...` assigns (renderer.ts:48-53)
LaunchSettles(c) ==
  /\ ~exited
  /\ callers[c] = "launching"
  /\ \E ok \in BOOLEAN :
       IF ok
       THEN /\ rbrowser' = TRUE
            /\ rlaunches' = rlaunches + 1
            /\ live' = live + 1
            /\ callers' = [callers EXCEPT ![c] = "hasBrowser"]
       ELSE /\ callers' = [callers EXCEPT ![c] = "failed"]
            /\ UNCHANGED <<rbrowser, rlaunches, live>>
  /\ UNCHANGED <<handlers, exited>>
  /\ UNCHANGED <<renderJobVars, smartVars, charVars, pureVars, toolVars, jobVars>>

\* the rest of the tool call (renderer.ts:276-293, part_000:319-352 or 528-539):
\* the call ends and the client may send the next request
CallEnds(c) ==
  /\ ~exited
  /\ callers[c] \in {"hasBrowser", "failed"}
  /\ callers' = [callers EXCEPT ![c] = "idle"]
  /\ UNCHANGED <<rbrowser, rlaunches, live, handlers, exited>>
  /\ UNCHANGED <<renderJobVars, smartVars, charVars, pureVars, toolVars, jobVars>>

\* a shutdown signal arrives (part_000:543-551): the handler calls closeBrowser
\* (renderer.ts:59-64); with `browser` null closeBrowser returns at once and the
\* handler goes on to process.exit(0), else it awaits browser.close()
SignalArrives(sig) ==
  /\ ~exited
  /\ handlers[sig] = "idle"
  /\ IF rbrowser
     THEN handlers' = [handlers EXCEPT ![sig] = "closing"] /\ UNCHANGED exited
     ELSE handlers' = [handlers EXCEPT ![sig] = "exited"] /\ exited' = TRUE
  /\ UNCHANGED <<rbrowser, rlaunches, live, callers>>
  /\ UNCHANGED <<renderJobVars, smartVars, charVars, pureVars, toolVars, jobVars>>

\* browser.close() resolves: `browser = null` (renderer.ts:61-62), then
\* process.exit(0) (part_000:545, 550)
CloseSettles(sig) ==
  /\ ~exited
  /\ handlers[sig] = "closing"
  /\ rbrowser' = FALSE
  /\ live' = IF rbrowser THEN live - 1 ELSE live
  /\ handlers' = [handlers EXCEPT ![sig] = "exited"]
  /\ exited' = TRUE
  /\ UNCHANGED <<rlaunches, callers>>
  /\ UNCHANGED <<renderJobVars, smartVars, charVars, pureVars, toolVars, jobVars>>

ServerNext ==
  \/ \E c \in Callers : EnterGetBrowser(c)
  \/ \E c \in Callers : LaunchSettles(c)
  \/ \E c \in Callers : CallEnds(c)
  \/ \E sig \in Signals : SignalArrives(sig)
  \/ \E sig \in Signals : CloseSettles(sig)

NoMarkup == [measured |-> <<>>, composed |-> <<>>, paragraphs |-> <<>>]

NoSearch == [remaining |-> 0, heights |-> <<>>, calls |-> <<>>]

NoSentences == [returned |-> FALSE, value |-> <<>>]

\* a call splitIntoSentences(text)
SplitIntoSentencesCall ==
  /\ pc = "start"
  /\ ~sentences.returned
  /\ sentences' = [returned |-> TRUE, value |-> SplitIntoSentences(text)]
  /\ UNCHANGED <<smartVars, charVars, renderVars, serverVars, markup, search, toolVars,
                 jobVars>>

NoRequest == [name |-> "none"]

NoResponse == [success |-> FALSE, isError |-> FALSE, pageCount |-> -1, error |-> "",
               aiCoverGenerated |-> FALSE]

\* the budgets findPageBreak is called with: what measureAvailableHeight returns
\* for a placeholder of height 0 and of the margin and more
SearchBudgets == {0 - SAFETY_MARGIN} \cup 0..MaxBudget

\* the paragraph counts and tables of probe heights of a search
SearchTables ==
  UNION {[remaining : {n}, heights : [1..n -> 0..(MaxBudget + 1)], calls : {<<>>}] :
           n \in 1..MaxParas}

\* findPageBreak is called on the same paragraphs and engine with some budget
FindPageBreakCall ==
  /\ Len(search.calls) < 2
  /\ \E b \in SearchBudgets :
       search' = [search EXCEPT !.calls =
                    Append(@, [budget |-> b,
                               count |-> FindPageBreak(search.heights, search.remaining, b)])]
  /\ UNCHANGED <<smartVars, charVars, renderVars, serverVars, markup, sentences, toolVars,
                 jobVars>>

\* one page of smartPaginate, any run of the paragraphs of the text: what
\* findPageBreak measured for it (part_000:757) and what the compositor makes of
\* the page's content (part_000:894, renderer.ts:110)
MeasureAndCompose ==
  /\ pc = "start"
  /\ markup = NoMarkup
  /\ LET ps == SplitParagraphs(text)
     IN  \E start \in 0..(Len(ps) - 1) : \E count \in 1..(Len(ps) - start) :
           LET pageParagraphs == PageSlice(ps, start, count)
           IN  markup' = [measured |-> MeasuredElements(pageParagraphs),
                          composed |-> ParagraphsToHtml(NewPage(pageParagraphs, 1, TRUE).content),
                          paragraphs |-> pageParagraphs]
  /\ UNCHANGED <<smartVars, charVars, renderVars, serverVars, search, sentences, toolVars,
                 jobVars>>

RenderNext ==
  \/ ComposePage
  \/ RenderGetBrowser
  \/ RenderOpenTab
  \/ Shoot
  \/ RenderCloseTab

\* index.ts: the CallTool request handler (part_000:256-540)

\* a JavaScript value passed as an argument: its typeof, its truthiness when it
\* is not a string, its characters when it is one
JsValue(type, truthy, chars) == [type |-> type, truthy |-> truthy, chars |-> chars]

\* `!v`
Falsy(v) == IF v.type = "string" THEN v.chars = <<>> ELSE ~v.truthy

\* the texts of the tool calls: none, blank, one paragraph, two paragraphs
ToolTexts == {<<>>, <<SP>>, <<"a">>, <<"a", LF, "b">>}

\* what a client may send as `text`: nothing, null, 0, 5, false, an array, a string
TextArguments ==
  {JsValue("undefined", FALSE, <<>>), JsValue("object", FALSE, <<>>),
   JsValue("number", FALSE, <<>>), JsValue("number", TRUE, <<>>),
   JsValue("boolean", FALSE, <<>>), JsValue("object", TRUE, <<>>)}
    \cup {JsValue("string", s # <<>>, s) : s \in ToolTexts}

\* no argument given
NoArgument == JsValue("undefined", FALSE, <<>>)

\* no file at the path
NoFile == [exists |-> FALSE, content |-> <<>>, title |-> ""]

\* what is at filePath when file_to_images reads it: nothing, or a file of which
\* readTextFile (part_000:29-70) returns the cleaned content and the title, the
\* first heading or else the file name without its extension
Files ==
  {NoFile} \cup [exists : {TRUE}, content : {<<>>, <<"a">>, <<"a", LF, "b">>},
                 title : {"", "H"}]

\* request.params of a tools/call request: a tool name and its arguments, or a
\* name without arguments, or a name the server does not know; showCover and
\* generateAiCover are given with their defaults filled in
ToolRequests ==
  [name : {"text_to_images"}, hasArgs : {TRUE}, text : TextArguments,
   filePath : {NoArgument}, file : {NoFile},
   title : {Undefined, "", "T"}, showCover : BOOLEAN, generateAiCover : BOOLEAN,
   fontSize : FontSizes, ratio : Ratios,
   charsPerPage : {0, 1}, outputDir : {Undefined, "out"}]
  \cup
  [name : {"estimate_pages"}, hasArgs : {TRUE}, text : TextArguments,
   filePath : {NoArgument}, file : {NoFile},
   title : {Undefined}, showCover : {FALSE}, generateAiCover : {FALSE},
   fontSize : FontSizes, ratio : Ratios,
   charsPerPage : {0, 1}, outputDir : {Undefined}]
  \cup
  [name : {"file_to_images"}, hasArgs : {TRUE}, text : {NoArgument},
   filePath : {NoArgument, JsValue("string", TRUE, <<"f">>)}, file : Files,
   title : {Undefined, "T"}, showCover : BOOLEAN, generateAiCover : BOOLEAN,
   fontSize : {"medium"}, ratio : {"3:4"},
   charsPerPage : {0, 1}, outputDir : {Undefined, "out"}]
  \cup
  [name : {"text_to_images", "estimate_pages", "file_to_images", "no_such_tool"},
   hasArgs : {FALSE}, text : {NoArgument},
   filePath : {NoArgument}, file : {NoFile},
   title : {Undefined}, showCover : {FALSE}, generateAiCover : {FALSE},
   fontSize : {"medium"}, ratio : {"3:4"},
   charsPerPage : {0}, outputDir : {Undefined}]

\* the catch clause of the handler (part_000:528-539)
ErrorResult(message) ==
  [success |-> FALSE, isError |-> TRUE, pageCount |-> -1, error |-> message,
   aiCoverGenerated |-> FALSE]

\* the JSON a tool returns when it succeeds (part_000:331-352, 375-388)
SuccessResult(pageCount, aiCoverGenerated) ==
  [success |-> TRUE, isError |-> FALSE, pageCount |-> pageCount, error |-> "",
   aiCoverGenerated |-> aiCoverGenerated]

\* mutant: the check without its typeof test, `if (!text)`
TextAcceptedAnyType(v) == ~Falsy(v)

\* the negation of `!text || typeof text !== 'string'` (part_000:284, 368)
TextAccepted(v) == ~Falsy(v) /\ v.type = "string"

\* the argument a tool checks first: text, or filePath (part_000:284, 368, 448)
CheckedArgument(r) == IF r.name = "file_to_images" THEN r.filePath ELSE r.text

\* `text` as the handler passes it on: the argument, or the content readTextFile
\* returned (part_000:453)
SourceText(r) ==
  IF r.name = "file_to_images" THEN JsValue("string", r.file.content # <<>>, r.file.content)
  ELSE r.text

\* `title` as the handler passes it on: the argument, or for a file
\* `overrideTitle || extractedTitle` (part_000:454)
UsedTitle(r) ==
  IF r.name = "file_to_images" /\ ~Truthy(r.title) THEN r.file.title ELSE r.title

\* mutant: the cover asked for whatever the title, `generateAiCover && showCover`
CoverRequestedAnyTitle(r) == r.generateAiCover /\ r.showCover

\* `generateAiCover && showCover && title` (part_000:295, 463)
CoverRequested(r) == r.generateAiCover /\ r.showCover /\ Truthy(UsedTitle(r))

\* aiCoverImage after generateCoverImage settled (part_000:296-307, 980-1047):
\* left undefined when the result is null (no API key, an HTTP error, no
\* prediction, a failed fetch) or has no bytesBase64Encoded, and else the
\* base64 string the API sent, which may be empty
CoverOutcomes == {Undefined, "", "B64"}

\* the options the handler passes to paginateText (part_000:289, 372)
HandlerOptions(r) ==
  [NoOptions EXCEPT !.charsPerPage = r.charsPerPage, !.fontSize = r.fontSize,
                    !.ratio = r.ratio]

\* mutant: the estimate made with the default options
EstimatePageCountDefaults(t, o) == Len(PaginateText(t, NoOptions))

\* estimatePageCount (test-file.ts:302-305)
EstimatePageCount(t, o) == Len(PaginateText(t, o))

\* the handler from its entry to its first await or its return: the switch, the
\* destructuring of args, the check of text or filePath, readTextFile,
\* paginateText, and then either the
\* call of generateCoverImage, the call of textToImages, or the estimate
ToolCall ==
  /\ tpc = "called"
  /\ LET r == request
         known == r.name \in {"text_to_images", "estimate_pages", "file_to_images"}
         notFound == r.name = "file_to_images" /\ ~r.file.exists
         rejected == ~known \/ ~r.hasArgs \/ ~TextAccepted(CheckedArgument(r)) \/ notFound
         typeError == ~rejected /\ SourceText(r).type # "string"
         pgs == IF rejected \/ typeError THEN <<>>
                ELSE PaginateText(SourceText(r).chars, HandlerOptions(r))
         rendering == ~rejected /\ ~typeError /\ r.name # "estimate_pages"
                        /\ ~CoverRequested(r)
     IN  /\ effects' = IF rejected THEN effects
                       ELSE IF typeError \/ r.name = "estimate_pages" THEN <<"paginate">>
                       ELSE IF CoverRequested(r) THEN <<"paginate", "cover">>
                       ELSE <<"paginate", "render">>
         /\ copts' = IF rejected \/ typeError THEN copts ELSE HandlerOptions(r)
         /\ cpages' = IF rejected \/ typeError THEN cpages ELSE pgs
         /\ response' = IF ~known THEN ErrorResult("Unknown tool")
                        ELSE IF ~r.hasArgs THEN ErrorResult("Cannot destructure property")
                        ELSE IF ~TextAccepted(CheckedArgument(r))
                          THEN ErrorResult("is required and must be a string")
                        ELSE IF notFound THEN ErrorResult("File not found")
                        ELSE IF typeError THEN ErrorResult("text.replace is not a function")
                        ELSE IF r.name = "estimate_pages"
                          THEN SuccessResult(EstimatePageCount(r.text.chars,
                                                               HandlerOptions(r)), FALSE)
                        ELSE response
         /\ tpc' = IF rejected \/ typeError \/ r.name = "estimate_pages" THEN "responded"
                   ELSE IF CoverRequested(r) THEN "cover"
                   ELSE "render"
         /\ rpages' = IF rendering THEN pgs ELSE rpages
         /\ ropts' = IF rendering
                     THEN [title |-> UsedTitle(r), showCover |-> r.showCover,
                           aiCoverImage |-> Undefined]
                     ELSE ropts
         /\ rpc' = IF rendering THEN "loop" ELSE rpc
  /\ UNCHANGED <<ri, rhtml, rshot, images, rbrowser, rlaunches, live, rtab, rthrown,
                 rendered, rerror, rcontents, tresult>>
  /\ UNCHANGED <<smartVars, serverVars, pureVars, jobVars, request>>

\* generateCoverImage settles (part_000:296-307, 464-474) and the handler calls
\* textToImages (part_000:310-317, 477-484)
ToolCover ==
  /\ tpc = "cover"
  /\ \E aiCoverImage \in CoverOutcomes :
       ropts' = [title |-> UsedTitle(request), showCover |-> request.showCover,
                 aiCoverImage |-> aiCoverImage]
  /\ rpages' = cpages
  /\ rpc' = "loop"
  /\ effects' = Append(effects, "render")
  /\ tpc' = "render"
  /\ UNCHANGED <<ri, rhtml, rshot, images, rbrowser, rlaunches, live, rtab, rthrown,
                 rendered, rerror, rcontents, tresult>>
  /\ UNCHANGED <<smartVars, charVars, serverVars, pureVars, jobVars, request, response>>

\* textToImages settles: its rejection reaches the catch clause; otherwise the
\* images are written when outputDir is given (part_000:319-329), which may
\* throw, and the result is returned (part_000:331-352)
ToolFinish ==
  /\ tpc = "render"
  /\ rpc \in {"done", "error"}
  /\ LET ok == SuccessResult(tresult.pageCount, Truthy(ropts.aiCoverImage))
     IN  IF rpc = "error"
         THEN response' = ErrorResult(rerror.message) /\ UNCHANGED effects
         ELSE IF Truthy(request.outputDir)
         THEN /\ effects' = Append(effects, "write")
              /\ response' \in {ok, ErrorResult("EACCES: permission denied")}
         ELSE response' = ok /\ UNCHANGED effects
  /\ tpc' = "responded"
  /\ UNCHANGED <<smartVars, charVars, renderVars, serverVars, pureVars, jobVars, request>>

ToolNext ==
  \/ ToolCall
  \/ ToolCover
  \/ ToolFinish
  \/ RenderNext


\* smartPaginate called by several callers at once (part_000:846-913): each call
\* is an async function with its own `browserInstance` and `page`

Jobs == 1..MaxJobs

NoJob == [pc |-> "idle", page |-> 0, contents |-> 0, thrown |-> FALSE]

\* a tab as newPage returns it, with the history of who used it
NewTab(j) == [opener |-> j, open |-> TRUE, setBy |-> {}, closedBy |-> {}]

\* smartPaginate is called; a text without paragraphs returns [] at once
\* (part_000:857-867)
JobStart(j) ==
  /\ jobs[j].pc = "idle"
  /\ \E empty \in BOOLEAN :
       jobs' = [jobs EXCEPT ![j].pc = IF empty THEN "done" ELSE "getBrowser"]
  /\ UNCHANGED tabs
  /\ UNCHANGED notJobVars

\* await getBrowser() settles (part_000:870)
JobGetBrowser(j) ==
  /\ jobs[j].pc = "getBrowser"
  /\ \E ok \in BOOLEAN :
       jobs' = [jobs EXCEPT ![j].pc = IF ok THEN "newPage" ELSE "error"]
  /\ UNCHANGED tabs
  /\ UNCHANGED notJobVars

\* mutant: one tab kept for all calls, opened by the first that needs it
JobNewPageShared(j) ==
  /\ jobs[j].pc = "newPage"
  /\ \E ok \in BOOLEAN :
       IF ok
       THEN IF tabs = <<>>
            THEN /\ tabs' = Append(tabs, NewTab(j))
                 /\ jobs' = [jobs EXCEPT ![j].pc = "viewport", ![j].page = 1]
            ELSE /\ jobs' = [jobs EXCEPT ![j].pc = "viewport", ![j].page = 1]
                 /\ UNCHANGED tabs
       ELSE /\ jobs' = [jobs EXCEPT ![j].pc = "error"]
            /\ UNCHANGED tabs
  /\ UNCHANGED notJobVars

\* const page = await browserInstance.newPage() (part_000:871)
JobNewPage(j) ==
  /\ jobs[j].pc = "newPage"
  /\ \E ok \in BOOLEAN :
       IF ok
       THEN /\ tabs' = Append(tabs, NewTab(j))
            /\ jobs' = [jobs EXCEPT ![j].pc = "viewport", ![j].page = Len(tabs) + 1]
       ELSE /\ jobs' = [jobs EXCEPT ![j].pc = "error"]
            /\ UNCHANGED tabs
  /\ UNCHANGED notJobVars

\* await page.setViewportSize(...) (part_000:872), outside the try block
JobViewport(j) ==
  /\ jobs[j].pc = "viewport"
  /\ \E ok \in BOOLEAN :
       jobs' = [jobs EXCEPT ![j].pc = IF ok THEN "measure" ELSE "error"]
  /\ UNCHANGED tabs
  /\ UNCHANGED notJobVars

\* one measurement of measureAvailableHeight or findPageBreak on `page`
\* (part_000:827, 765): it throws, or sets the content and returns; after it the
\* call measures again or leaves the try block
JobMeasure(j) ==
  /\ jobs[j].pc = "measure"
  /\ \E ok \in BOOLEAN, more \in BOOLEAN :
       IF ok
       THEN /\ tabs' = [tabs EXCEPT ![jobs[j].page].setBy = @ \cup {j}]
            /\ jobs' = [jobs EXCEPT ![j].contents = @ + 1,
                                    ![j].pc = IF more /\ jobs[j].contents + 1 < MaxJobContents
                                              THEN "measure" ELSE "close"]
       ELSE /\ jobs' = [jobs EXCEPT ![j].pc = "close", ![j].thrown = TRUE]
            /\ UNCHANGED tabs
  /\ UNCHANGED notJobVars

\* finally { await page.close() } (part_000:910-912)
JobClose(j) ==
  /\ jobs[j].pc = "close"
  /\ tabs' = [tabs EXCEPT ![jobs[j].page].open = FALSE,
                          ![jobs[j].page].closedBy = @ \cup {j}]
  /\ jobs' = [jobs EXCEPT ![j].pc = IF jobs[j].thrown THEN "error" ELSE "done"]
  /\ UNCHANGED notJobVars

JobsNext ==
  \/ \E j \in Jobs : JobStart(j)
  \/ \E j \in Jobs : JobGetBrowser(j)
  \/ \E j \in Jobs : JobNewPage(j)
  \/ \E j \in Jobs : JobViewport(j)
  \/ \E j \in Jobs : JobMeasure(j)
  \/ \E j \in Jobs : JobClose(j)

\* no smartPaginate call was made by any of the callers
JobsIdle ==
  /\ jobs = [j \in Jobs |-> NoJob]
  /\ tabs = <<>>

-----------------------------------------------------------------------------
(* Specifications *)

\* no smartPaginate or paginateText call is running
SmartIdle ==
  /\ text = <<>>
  /\ oracleKind = "any"
  /\ hts = <<>>
  /\ pc = "idle"
  /\ paragraphs = <<>>
  /\ browser = FALSE
  /\ launches = 0
  /\ tab = "none"
  /\ firstPageContentHeight = 0
  /\ baseContentHeight = 0
  /\ pages = <<>>
  /\ currentIndex = 0
  /\ availableHeight = 0
  /\ low = 0 /\ high = 0 /\ result = 0
  /\ probes = 0
  /\ lastBreak = NoBreak
  /\ thrown = FALSE
  /\ missing = {}
  /\ contents = 0
  /\ seen = <<>>
  /\ run = 1
  /\ firstRun = NoRun
  /\ measured = <<>>
  /\ copts = NoOptions
  /\ cpages = <<>>

\* no markup compared, no search table drawn, no tool call made
RestIdle ==
  /\ markup = NoMarkup
  /\ search = NoSearch
  /\ sentences = NoSentences
  /\ request = NoRequest
  /\ tpc = "idle"
  /\ effects = <<>>
  /\ response = NoResponse
  /\ JobsIdle

\* the server process has started and no request or signal has arrived
ServerIdle ==
  /\ callers = [c \in Callers |-> "idle"]
  /\ handlers = [sig \in Signals |-> "idle"]
  /\ exited = FALSE

\* no textToImages call is running
RenderIdle ==
  /\ rpages = <<>>
  /\ ropts = [title |-> Undefined, showCover |-> FALSE, aiCoverImage |-> Undefined]
  /\ rpc = "idle"
  /\ ri = 0
  /\ rhtml = NoHtml
  /\ rshot = Screenshot(NoHtml)
  /\ images = <<>>
  /\ rbrowser = FALSE
  /\ rlaunches = 0
  /\ live = 0
  /\ rtab = "none"
  /\ rthrown = FALSE
  /\ rendered = <<>>
  /\ rerror = NoError
  /\ rcontents = 0
  /\ tresult = NoResult
  /\ ServerIdle

\* the state of a paginator call before its first statement
SmartEntry ==
  /\ hts = <<>>
  /\ pc = "start"
  /\ paragraphs = <<>>
  /\ browser = FALSE
  /\ launches = 0
  /\ tab = "none"
  /\ firstPageContentHeight = 0
  /\ baseContentHeight = 0
  /\ pages = <<>>
  /\ currentIndex = 0
  /\ availableHeight = 0
  /\ low = 0 /\ high = 0 /\ result = 0
  /\ probes = 0
  /\ lastBreak = NoBreak
  /\ thrown = FALSE
  /\ missing = {}
  /\ contents = 0
  /\ seen = <<>>
  /\ run = 1
  /\ firstRun = NoRun
  /\ measured = <<>>
  /\ copts = NoOptions
  /\ cpages = <<>>

\* smartPaginate(text) or paginateText(text) is called
InitSmart == text \in Texts /\ SmartEntry

\* a paginator is called on a text: smartPaginate with an engine that may report
\* any height, or paginateText
Init == InitSmart /\ oracleKind = "any" /\ RenderIdle /\ RestIdle

Next == SmartNext \/ PaginateTextCall

Spec == Init /\ [][Next]_vars

\* smartPaginate with an engine that lays paragraphs out as blocks, one under the other
InitLayout ==
  /\ InitSmart
  /\ text \in ShortTexts \cup BlankLineTexts
  /\ oracleKind = "layout"
  /\ RenderIdle
  /\ RestIdle

SpecLayout == InitLayout /\ [][SmartNext]_vars

\* the pages textToImages is given: what paginateText returns (test.ts:66-77,
\* part_000:289-317), or no page at all
RenderInputs ==
  {PaginateText(t, [NoOptions EXCEPT !.charsPerPage = c]) : t \in ParaTexts, c \in 1..MaxChars}
    \cup {<<>>}

\* textToImages(text, pages, options) is called
InitRender ==
  /\ SmartIdle
  /\ RestIdle
  /\ rpages \in RenderInputs
  /\ ropts \in RenderOptions
  /\ rpc = "loop"
  /\ ri = 0
  /\ rhtml = NoHtml
  /\ rshot = Screenshot(NoHtml)
  /\ images = <<>>
  /\ rbrowser = FALSE
  /\ rlaunches = 0
  /\ live = 0
  /\ rtab = "none"
  /\ rthrown = FALSE
  /\ rendered = <<>>
  /\ rerror = NoError
  /\ rcontents = 0
  /\ tresult = NoResult
  /\ ServerIdle

SpecRender == InitRender /\ [][RenderNext]_vars

\* smartPaginate alone, every await on the engine eventually settling
\* a run over at most MaxLiveParas paragraphs
InitLive == Init /\ text \in {<<>>} \cup UNION {ParaTextsOf(k) : k \in 1..MaxLiveParas}

SpecLive == InitLive /\ [][SmartNext]_vars /\ WF_vars(SmartNext)

\* paginateText alone, on texts whose paragraphs hold one or more sentences
InitChar ==
  /\ text \in ShortTexts \cup SentenceTexts
  /\ SmartEntry
  /\ oracleKind = "any"
  /\ RenderIdle
  /\ RestIdle

SpecChar == InitChar /\ [][PaginateTextCall]_vars

\* the markup of a page as measured and as composed
InitMarkup ==
  /\ text \in MarkupTexts
  /\ SmartEntry
  /\ oracleKind = "any"
  /\ RenderIdle
  /\ RestIdle

SpecMarkup == InitMarkup /\ [][MeasureAndCompose]_vars

\* findPageBreak over every table of probe heights, with two budgets
InitSearch ==
  /\ SmartIdle
  /\ RenderIdle
  /\ markup = NoMarkup
  /\ search \in SearchTables
  /\ sentences = NoSentences
  /\ request = NoRequest
  /\ tpc = "idle"
  /\ effects = <<>>
  /\ response = NoResponse
  /\ JobsIdle

SpecSearch == InitSearch /\ [][FindPageBreakCall]_vars

\* the server: concurrent tool calls that render, and the shutdown signals
InitServer == SmartIdle /\ RenderIdle /\ RestIdle

SpecServer == InitServer /\ [][ServerNext]_vars

\* smartPaginate called up to MaxRuns times on one text, with an engine that
\* reports the same height for the same markup
InitRepeat ==
  /\ InitSmart
  /\ text \in {<<>>} \cup UNION {ParaTextsOf(k) : k \in 1..MaxLiveParas}
  /\ oracleKind = "fixed"
  /\ RenderIdle
  /\ RestIdle

NextRepeat == SmartNext \/ Rerun

SpecRepeat == InitRepeat /\ [][NextRepeat]_vars

\* splitIntoSentences alone, on one paragraph
InitSentences ==
  /\ text \in SentenceInputs
  /\ SmartEntry
  /\ oracleKind = "any"
  /\ RenderIdle
  /\ RestIdle

SpecSentences == InitSentences /\ [][SplitIntoSentencesCall]_vars

\* the callers of smartPaginate, each making one call, in any interleaving
InitJobs == SmartIdle /\ RenderIdle /\ RestIdle

SpecJobs == InitJobs /\ [][JobsNext]_vars

\* one tools/call request arrives at a server that has rendered nothing yet
InitTool ==
  /\ SmartIdle
  /\ RenderIdle
  /\ markup = NoMarkup
  /\ search = NoSearch
  /\ sentences = NoSentences
  /\ request \in ToolRequests
  /\ tpc = "called"
  /\ effects = <<>>
  /\ response = NoResponse
  /\ JobsIdle

SpecTool == InitTool /\ [][ToolNext]_vars

-----------------------------------------------------------------------------
(* Properties *)

\* pages' paragraph lists, concatenated in page order
RECURSIVE ConcatParagraphs(_)
ConcatParagraphs(pgs) ==
  IF pgs = <<>> THEN <<>> ELSE pgs[1].paragraphs \o ConcatParagraphs(Tail(pgs))

Max(S) == CHOOSE x \in S : \A y \in S : y <= x

\* C1: when smartPaginate returns for a non-empty cleaned input, the paragraph lists
\* of its pages, concatenated in page order, are exactly the input's paragraph
\* sequence, whatever heights the oracle reported.
C1_Coverage ==
  (pc = "done" /\ SplitParagraphs(text) # <<>>)
    => ConcatParagraphs(Returned) = SplitParagraphs(text)

C1_Witness ==
  /\ pc = "done"
  /\ Len(Returned) >= 2
  /\ Len(SplitParagraphs(text)) >= 3
  /\ \E i \in 1..Len(Returned) : Len(Returned[i].paragraphs) >= 2

\* C2: every findPageBreak call that returns gives a count >= 1, whatever the
\* budget (0 and negative budgets included) and whatever the measured heights.
C2_Progress == lastBreak.returned => lastBreak.count >= 1

C2_Witness ==
  /\ lastBreak.returned
  /\ lastBreak.budget < 0
  /\ lastBreak.remaining >= 2
  /\ lastBreak.count = 1

\* the counts k of a returned findPageBreak call whose paragraphs fit its budget
FittingCounts(b) ==
  {k \in 1..b.remaining : LayoutHeight(b.start, k) <= b.budget}

\* C3: with the engine laying paragraphs out as blocks, the count findPageBreak
\* returns is the largest k >= 1 whose paragraphs [start, start + k) measure at
\* most the budget, and 1 when no k fits.
C3_LargestFit ==
  lastBreak.returned =>
    lastBreak.count = (IF FittingCounts(lastBreak) = {} THEN 1
                       ELSE Max(FittingCounts(lastBreak)))

C3_Witness ==
  /\ lastBreak.returned
  /\ lastBreak.count >= 2
  /\ lastBreak.count < lastBreak.remaining
  /\ lastBreak.count \in FittingCounts(lastBreak)

\* C4: a smartPaginate run ends, and when it returns the cursor is at the end of
\* the paragraph list; every findPageBreak return moves the cursor forward by at
\* least one paragraph.
C4_Terminates ==
  /\ <>(pc = "error" \/ (pc = "done" /\ currentIndex = Len(paragraphs)))
  /\ [][(pc = "search" /\ pc' = "loop") => currentIndex' >= currentIndex + 1]_vars

C4_Witness ==
  /\ pc = "done"
  /\ Len(Returned) >= 2
  /\ currentIndex = Len(paragraphs)

\* page numbers 1..n in order, isFirst on index 0 only, isLast on index n-1 only
FlagsInOrder(pgs) ==
  \A i \in 1..Len(pgs) :
    /\ pgs[i].pageNumber = i
    /\ pgs[i].isFirst = (i = 1)
    /\ pgs[i].isLast = (i = Len(pgs))

\* C5: the pages smartPaginate returns and the pages paginateText returns are
\* numbered 1..n in order, with isFirst true on the first page only and isLast
\* true on the last page only.
C5_Flags ==
  /\ pc = "done" => FlagsInOrder(Returned)
  /\ pc = "charDone" => FlagsInOrder(cpages)

C5_Witness ==
  /\ pc = "charDone"
  /\ Len(cpages) >= 3
  /\ cpages[1].isFirst /\ ~cpages[1].isLast
  /\ cpages[Len(cpages)].isLast /\ ~cpages[Len(cpages)].isFirst

\* C7: when textToImages returns, renderPages has produced one image per input
\* page, image i showing page i, each page screenshotted exactly once and in page
\* order, and pageCount is the number of pages given.
C7_OneImagePerPage ==
  rpc = "done" =>
    /\ Len(images) = Len(rpages)
    /\ \A i \in 1..Len(rpages) :
         /\ images[i].png.content = rpages[i].content
         /\ images[i].png.pageNumber = rpages[i].pageNumber
    /\ rendered = [i \in 1..Len(rpages) |-> i - 1]
    /\ tresult.pageCount = Len(rpages)
    /\ Len(tresult.images) = Len(rpages)
    /\ \A i \in 1..Len(rpages) : tresult.images[i] = Base64(images[i])

C7_Witness ==
  /\ rpc = "done"
  /\ Len(rpages) >= 3
  /\ tresult.pageCount = Len(rpages)

\* the variant the claim gives the page at 0-based index i
ClaimedVariant(i, o) ==
  IF i = 0 /\ o.showCover /\ Truthy(o.title)
  THEN (IF Truthy(o.aiCoverImage) THEN "aiCover" ELSE "title")
  ELSE "content"

\* C8: only the page at index 0, and only with showCover set and a title given,
\* gets a title or cover variant: the cover-image variant iff a cover image is
\* given, the textual-title variant otherwise; every other page is plain content.
C8_Variants ==
  /\ rpc \in {"getBrowser", "newPage", "shoot", "close"}
       => rhtml.variant = ClaimedVariant(ri, ropts)
  /\ \A i \in 1..Len(images) : images[i].png.variant = ClaimedVariant(i - 1, ropts)

C8_Witness ==
  /\ rpc = "done"
  /\ Len(images) >= 2
  /\ images[1].png.variant = "aiCover"
  /\ images[2].png.variant = "content"

\* C11: when composing a page fails, the error the job ends with names the index
\* of the page that failed, and textToImages never returns fewer images than pages.
C11_FailureNamesPage ==
  /\ rpc = "error" => rerror.page = ri
  /\ rpc = "done" => Len(tresult.images) = Len(rpages)

\* C12: once smartPaginate or renderPage has returned or thrown, the tab it
\* opened is closed.
C12_TabsClosed ==
  /\ pc \in {"done", "error"} => tab # "open"
  /\ rpc \in {"loop", "done", "error"} => rtab # "open"

\* C13: no tab receives content for more than one measurement probe or one
\* composition.
C13_FreshTabPerProbe == contents <= 1 /\ rcontents <= 1

\* C19: with an engine that reports the same height for the same markup, every
\* smartPaginate call on a text returns the pages the first returned call did:
\* the same page count and the same paragraphs on each page.
C19_Repeatable ==
  (pc = "done" /\ firstRun.returned) =>
    /\ Len(Returned) = Len(firstRun.pages)
    /\ \A i \in 1..Len(Returned) : Returned[i].paragraphs = firstRun.pages[i].paragraphs

C19_Witness ==
  /\ pc = "done"
  /\ run = 2
  /\ firstRun.returned
  /\ launches = 1
  /\ Len(Returned) >= 2
  /\ contents >= 4

\* C14: whatever the interleaving of concurrent getBrowser callers, at most one
\* engine instance is live at a time: a launch happens only when every instance
\* launched before has been closed.
C14_SingleEngine == live <= 1

\* C15: when the process exits on SIGINT or SIGTERM, no engine instance the
\* server launched is still open.
C15_ClosedAtExit == exited => live = 0

\* the paragraphs of the concatenated page contents: each page's content split at
\* its line breaks, in page order
RECURSIVE ContentParagraphs(_)
ContentParagraphs(pgs) ==
  IF pgs = <<>> THEN <<>>
  ELSE SelectSeq(SplitNewlines(pgs[1].content), NotBlank) \o ContentParagraphs(Tail(pgs))

NotSpace(c) == ~IsSpace(c)

RECURSIVE Flatten(_)
Flatten(ps) == IF ps = <<>> THEN <<>> ELSE SelectSeq(ps[1], NotSpace) \o Flatten(Tail(ps))

\* q is p with some paragraphs cut in pieces: cutting and white space aside, the
\* same paragraphs in the same order
RECURSIVE Regroups(_, _)
Regroups(q, p) ==
  IF p = <<>> THEN q = <<>>
  ELSE \E k \in 1..Len(q) :
         /\ Flatten(SubSeq(q, 1, k)) = SelectSeq(p[1], NotSpace)
         /\ Regroups(SubSeq(q, k + 1, Len(q)), Tail(p))

\* C16: the contents of the pages paginateText returns, concatenated, are the
\* paragraph sequence of the cleaned text: every paragraph is there once, whole or
\* cut in sentences across pages, none lost, doubled or run into its neighbour.
C16_CharCoverage ==
  pc = "charDone" => Regroups(ContentParagraphs(cpages), SplitParagraphs(text))

\* the weaker fact that does hold: no character other than white space is lost,
\* doubled or moved
CharactersKept ==
  pc = "charDone" => Flatten(ContentParagraphs(cpages)) = Flatten(SplitParagraphs(text))

\* C17: for every paragraph list of a page, the elements findPageBreak measured
\* (paragraphToHtml of each paragraph) are the elements the renderer's
\* paragraphsToHtml makes of the page content, rule lines being <hr> in both.
C17_SameMarkup == markup.measured = markup.composed

C17_Witness ==
  /\ Len(markup.paragraphs) >= 2
  /\ \E i \in 1..Len(markup.measured) : markup.measured[i].tag = "hr"
  /\ \E i \in 1..Len(markup.measured) :
       markup.measured[i].tag = "p" /\ markup.measured[i].text # markup.paragraphs[i]

\* C18: for the same paragraphs, start index and engine, a findPageBreak call with
\* a budget at least as large returns a count at least as large.
C18_BudgetMonotone ==
  \A i, j \in 1..Len(search.calls) :
    search.calls[i].budget <= search.calls[j].budget
      => search.calls[i].count <= search.calls[j].count

C18_Witness ==
  /\ Len(search.calls) = 2
  /\ search.calls[1].budget < search.calls[2].budget
  /\ search.calls[1].count < search.calls[2].count
  /\ search.calls[1].count > 1
  /\ \E k \in 1..(search.remaining - 1) : search.heights[k] > search.heights[k + 1]

\* the function FindPageBreak and the steps Probe and PushPage agree
SearchAgrees ==
  lastBreak.returned =>
    lastBreak.count =
      FindPageBreak([k \in 1..lastBreak.remaining |-> LayoutHeight(lastBreak.start, k)],
                    lastBreak.remaining, lastBreak.budget)

\* C6: for an empty or whitespace-only text smartPaginate returns no page and
\* has neither launched the engine nor opened a tab.
C6_EmptyInput ==
  IsBlank(text) =>
    /\ pc \in {"start", "done", "charDone"}
    /\ launches = 0 /\ ~browser /\ tab = "none"
    /\ (pc = "done" => Returned = <<>>)

C6_Witness ==
  /\ pc = "done"
  /\ IsBlank(text)
  /\ Len(text) >= 2

\* C9: a budget measurement that finds the expected element absent makes
\* measureAvailableHeight fail: no budget is ever derived from a height of 0
\* standing for the absent element.
C9_MissingElementFails ==
  (missing \cap {"first", "base"}) # {} => (thrown /\ pc \in {"close", "error"})

\* C10: a measurement error (engine unreachable, element absent) in a budget
\* measurement or a probe is fatal: smartPaginate never returns pages after one.
C10_MeasurementErrorFatal ==
  (thrown \/ missing # {}) => pc # "done"

\* what the claim calls a missing, non-string or empty text
InvalidText(v) == v.type # "string" \/ v.chars = <<>>

\* C20: text_to_images and estimate_pages reject a missing, non-string or empty
\* text with an error result (success false, isError true), and such a call
\* never paginates, asks for a cover, starts a render, launches the engine or
\* writes a file
C20_RejectsBadText ==
  (request.name \in {"text_to_images", "estimate_pages"} /\ InvalidText(request.text)) =>
    /\ effects = <<>>
    /\ cpages = <<>>
    /\ rpc = "idle"
    /\ rlaunches = 0
    /\ tpc \in {"called", "responded"}
    /\ tpc = "responded" => (~response.success /\ response.isError)

\* a text_to_images call with the number 5 as text, which asked for a cover and
\* an output directory, was answered
C20_Witness ==
  /\ tpc = "responded"
  /\ request.name = "text_to_images"
  /\ request.text.type = "number" /\ request.text.truthy
  /\ CoverRequested(request)
  /\ Truthy(request.outputDir)
  /\ response.isError

\* C21: estimate_pages never launches the rendering engine or makes an image,
\* and the pageCount text_to_images reports is the one estimate_pages returns
\* for the same text, fontSize, ratio and charsPerPage
C21_EstimateAgrees ==
  /\ request.name = "estimate_pages" =>
       (rlaunches = 0 /\ live = 0 /\ ~rbrowser /\ rpc = "idle" /\ images = <<>>)
  /\ (request.name \in {"text_to_images", "estimate_pages"} /\ tpc = "responded"
        /\ response.success) =>
       response.pageCount = EstimatePageCount(request.text.chars, HandlerOptions(request))

\* text_to_images rendered two pages and reported them
C21_Witness ==
  /\ request.name = "text_to_images"
  /\ tpc = "responded"
  /\ response.success
  /\ response.pageCount = 2
  /\ rlaunches = 1

\* C22: findPageBreak is never called past the end of the paragraph list: at
\* every call at least one paragraph remains, the count returned is between 1
\* and the number remaining, the cursor never passes the end of the list, and
\* every page holds at least one paragraph
C22_WithinList ==
  /\ currentIndex <= Len(paragraphs)
  /\ pc = "search" =>
       /\ Len(paragraphs) - currentIndex >= 1
       /\ high <= Len(paragraphs) - currentIndex
  /\ lastBreak.returned =>
       /\ lastBreak.remaining >= 1
       /\ lastBreak.count >= 1
       /\ lastBreak.count <= lastBreak.remaining
  /\ \A i \in 1..Len(pages) : Len(pages[i].paragraphs) >= 1

\* the last call, made in the middle of the list, took all that remained
C22_Witness ==
  /\ pc = "done"
  /\ lastBreak.returned
  /\ lastBreak.start >= 1
  /\ lastBreak.remaining >= 2
  /\ lastBreak.count = lastBreak.remaining
  /\ currentIndex = Len(paragraphs)

\* s cut at every blank line, that is at every run of two or more line breaks
RECURSIVE SplitBlankAcc(_, _)
SplitBlankAcc(s, cur) ==
  IF s = <<>> THEN <<cur>>
  ELSE IF LeadingLF(s) >= 2
       THEN <<cur>> \o SplitBlankAcc(SubSeq(s, LeadingLF(s) + 1, Len(s)), <<>>)
       ELSE SplitBlankAcc(Tail(s), Append(cur, s[1]))

\* the Paragraphs of a text as the claim has them
BlankLineParagraphs(t) == SelectSeq(SplitBlankAcc(CleanText(t), <<>>), NotBlank)

\* C23: the paragraphs of smartPaginate are the pieces of the cleaned text
\* between blank lines, the empty and whitespace-only pieces left out: lines
\* separated by a single line break stay in one paragraph
C23_BlankLineSplit ==
  pc \notin {"idle", "start", "charDone"} =>
    /\ \A i \in 1..Len(paragraphs) : NotBlank(paragraphs[i])
    /\ paragraphs = BlankLineParagraphs(text)

\* the part of C23 that holds: no paragraph is empty or whitespace-only
NoBlankParagraph ==
  pc \notin {"idle", "start", "charDone"} => \A i \in 1..Len(paragraphs) : NotBlank(paragraphs[i])

\* sub occurs in s as a run of consecutive characters
Contains(s, sub) ==
  \E i \in 0..(Len(s) - Len(sub)) : SubSeq(s, i + 1, i + Len(sub)) = sub

\* some page of pgs holds sub whole
OnOnePage(pgs, sub) == \E k \in 1..Len(pgs) : Contains(pgs[k].content, sub)

\* C24: paginateText cuts a paragraph into sentences only when the paragraph is
\* longer than the budget of the empty page it starts (the first-page budget on
\* page 1, the regular budget later); every other paragraph is whole on one
\* page, and of a paragraph that was cut every sentence is whole on one page
C24_SplitOnlyOverlong ==
  pc = "charDone" =>
    LET ds == Decisions(text, copts)
    IN  \A i \in 1..Len(ds) :
          LET d == ds[i]
              budget == IF d.pageNumber = 1 THEN FirstPageMaxCharsOf(text, copts)
                        ELSE MaxCharsOf(text, copts)
              ss == SplitIntoSentences(d.paragraph)
          IN  /\ d.split => (d.empty /\ Len(d.paragraph) > budget)
              /\ ~d.split => OnOnePage(cpages, d.paragraph)
              /\ \A j \in 1..Len(ss) : OnOnePage(cpages, Trim(ss[j]))

\* a paragraph was cut and its sentences went to different pages, after a
\* paragraph that was placed whole
C24_Witness ==
  /\ pc = "charDone"
  /\ LET ds == Decisions(text, copts)
     IN  /\ Len(ds) >= 2
         /\ ~ds[1].split
         /\ ds[2].split
         /\ ds[2].pageNumber >= 2
         /\ ~OnOnePage(cpages, ds[2].paragraph)

RECURSIVE SumOf(_)
SumOf(ns) == IF ns = <<>> THEN 0 ELSE ns[1] + SumOf(Tail(ns))

\* C25: every page paginateText returns has content, and the lengths of the
\* paragraphs and sentences on it add up to at most the page's budget (the
\* first-page budget for page 1, the regular budget otherwise), unless the page
\* holds one paragraph or sentence alone that is longer than the budget
C25_PageWithinBudget ==
  pc = "charDone" =>
    LET placed == PlacedUnits(text, copts)
    IN  /\ Len(placed) = Len(cpages)
        /\ \A k \in 1..Len(cpages) :
             LET budget == IF k = 1 THEN FirstPageMaxCharsOf(text, copts)
                           ELSE MaxCharsOf(text, copts)
             IN  /\ cpages[k].content # <<>>
                 /\ Len(placed[k]) >= 1
                 /\ \/ SumOf(placed[k]) <= budget
                    \/ Len(placed[k]) = 1 /\ placed[k][1] > budget

\* one page is filled to its budget by two pieces and another holds one piece
\* longer than its budget
C25_Witness ==
  /\ pc = "charDone"
  /\ LET placed == PlacedUnits(text, copts)
         budget(k) == IF k = 1 THEN FirstPageMaxCharsOf(text, copts)
                      ELSE MaxCharsOf(text, copts)
     IN  /\ \E k \in 1..Len(placed) : Len(placed[k]) = 2 /\ SumOf(placed[k]) = budget(k)
         /\ \E k \in 1..Len(placed) : Len(placed[k]) = 1 /\ placed[k][1] > budget(k)

\* C26: in one smartPaginate run the first-page budget and then the later-page
\* budget are measured once each, before any page-break search, and keep the
\* measured value; the search for page 1 uses the first and every later search
\* the second
C26_BudgetsMeasuredOnce ==
  /\ Len(measured) <= 2
  /\ Len(measured) >= 1 =>
       (measured[1].which = "first" /\ firstPageContentHeight = measured[1].value)
  /\ Len(measured) = 2 =>
       (measured[2].which = "base" /\ baseContentHeight = measured[2].value)
  /\ (pc \in {"loop", "search"} \/ lastBreak.returned \/ pages # <<>>) => Len(measured) = 2
  /\ pc = "search" =>
       availableHeight = IF pages = <<>> THEN measured[1].value ELSE measured[2].value
  /\ lastBreak.returned =>
       lastBreak.budget = IF lastBreak.start = 0 THEN measured[1].value
                          ELSE measured[2].value

\* a run of three pages or more whose two budgets differ
C26_Witness ==
  /\ pc = "done"
  /\ Len(pages) >= 3
  /\ Len(measured) = 2
  /\ measured[1].value # measured[2].value
  /\ lastBreak.budget = measured[2].value

\* floor(log2(n)) for n >= 1
RECURSIVE FloorLog2(_)
FloorLog2(n) == IF n <= 1 THEN 0 ELSE 1 + FloorLog2(n \div 2)

\* C27: a findPageBreak call over n remaining paragraphs issues at most
\* floor(log2(n)) + 1 probes, and issues them one after another: each step
\* issues one probe, sets the tab's content once, and narrows the range that the
\* next probe is taken from
C27_ProbeBound ==
  /\ [](pc = "search" => probes <= FloorLog2(Len(paragraphs) - currentIndex) + 1)
  /\ [](lastBreak.returned => lastBreak.probes <= FloorLog2(lastBreak.remaining) + 1)
  /\ [][(pc = "search" /\ probes' # probes) =>
          /\ probes' = probes + 1
          /\ contents' = contents + 1
          /\ low' <= high' + 1
          /\ high' - low' < high - low]_vars

\* a call over four paragraphs that needed the three probes of the bound
C27_Witness ==
  /\ lastBreak.returned
  /\ lastBreak.remaining = MaxParas
  /\ lastBreak.probes = FloorLog2(MaxParas) + 1
  /\ lastBreak.probes < lastBreak.remaining

\* the sentences one after the other
RECURSIVE Concat(_)
Concat(ss) == IF ss = <<>> THEN <<>> ELSE ss[1] \o Concat(Tail(ss))

\* a stretch without terminators followed by a run of terminators
SentenceShaped(x) ==
  \A i \in 1..(Len(x) - 1) : IsEnder(x[i]) => IsEnder(x[i + 1])

\* C28: splitIntoSentences keeps a run of terminators whole and with the
\* sentence before it, returns no whitespace-only sentence, and loses no text:
\* the sentences concatenated are the paragraph, but for a whitespace-only
\* fragment left out
C28_SentencesKeepText ==
  sentences.returned =>
    LET ss == sentences.value
        joined == Concat(ss)
    IN  /\ \A i \in 1..Len(ss) : NotBlank(ss[i]) /\ SentenceShaped(ss[i])
        /\ \A i \in 2..Len(ss) : IsEnder(ss[i - 1][Len(ss[i - 1])]) /\ ~IsEnder(ss[i][1])
        /\ Len(joined) <= Len(text)
        /\ SubSeq(text, 1, Len(joined)) = joined
        /\ IsBlank(SubSeq(text, Len(joined) + 1, Len(text)))

\* two sentences, the first ending in a run of two terminators, and a
\* whitespace-only fragment after them left out
C28_Witness ==
  /\ sentences.returned
  /\ Len(sentences.value) = 2
  /\ LET first == sentences.value[1]
     IN  Len(first) >= 2 /\ IsEnder(first[Len(first) - 1]) /\ IsEnder(first[Len(first)])
  /\ Len(Concat(sentences.value)) < Len(text)

\* C29: concurrent smartPaginate calls never share a tab: the `page` of a call
\* is a tab that call opened, no two calls hold the same tab, and only the call
\* that opened a tab has set content on it or closed it
C29_NoSharedTab ==
  /\ \A j \in Jobs : jobs[j].page # 0 => tabs[jobs[j].page].opener = j
  /\ \A i, j \in Jobs : (i # j /\ jobs[i].page # 0) => jobs[i].page # jobs[j].page
  /\ \A t \in 1..Len(tabs) :
       /\ tabs[t].setBy \subseteq {tabs[t].opener}
       /\ tabs[t].closedBy \subseteq {tabs[t].opener}

\* two calls are measuring at the same time, each on its tab
C29_Witness ==
  /\ \A j \in Jobs : jobs[j].pc = "measure" /\ jobs[j].contents >= 1
  /\ Len(tabs) = MaxJobs
  /\ \A t \in 1..Len(tabs) : tabs[t].open /\ tabs[t].setBy # {}

\* x is one of the elements of the sequence q
InSeq(x, q) == \E i \in 1..Len(q) : q[i] = x

\* C30: text_to_images and file_to_images ask for an AI cover only when
\* generateAiCover and showCover are set and the title is not empty; when the
\* cover generation gives nothing the call fails only if the engine or the file
\* write fails, and page 1 is the textual-title variant; aiCoverGenerated is
\* true exactly when an image was obtained and passed to the renderer, and then
\* page 1 is the AI-cover variant with that image
C30_AiCover ==
  request.name \in {"text_to_images", "file_to_images"} =>
    LET asked == InSeq("cover", effects)
        settled == tpc \in {"render", "responded"}
        obtained == asked /\ settled /\ ropts.aiCoverImage \notin {Undefined, ""}
        answered == tpc = "responded"
    IN  /\ (asked \/ tpc = "cover") =>
          /\ request.generateAiCover
          /\ request.showCover
          /\ UsedTitle(request) \notin {Undefined, ""}
        /\ (asked /\ settled /\ ~obtained) =>
          /\ Len(images) >= 1 =>
               (images[1].png.variant = "title" /\ images[1].png.title = UsedTitle(request))
          /\ (answered /\ response.isError) => (rpc = "error" \/ InSeq("write", effects))
        /\ (answered /\ response.success) =>
          /\ response.aiCoverGenerated = obtained
          /\ (obtained /\ Len(images) >= 1) =>
               (images[1].png.variant = "aiCover"
                  /\ images[1].png.cover = ropts.aiCoverImage)
        /\ (settled /\ ~asked) => ropts.aiCoverImage = Undefined

\* file_to_images, with the title taken from the file, asked for a cover, got
\* none, and answered with success and a first page of the textual-title variant
C30_Witness ==
  /\ request.name = "file_to_images"
  /\ request.title = Undefined
  /\ tpc = "responded"
  /\ InSeq("cover", effects)
  /\ ropts.aiCoverImage = Undefined
  /\ response.success
  /\ ~response.aiCoverGenerated
  /\ Len(images) = 2
  /\ images[1].png.variant = "title"

====
